---------------------------- MODULE Spec2Model ----------------------------
(***************************************************************************)
(* A model of the birdsong codec engine of blackbird-twst.                 *)
(*                                                                         *)
(* The repository holds two versions of the audio service:                 *)
(*   "multi"  src/services/audioService.ts  (per-channel processing)       *)
(*   "mono"   src/unnamed/part_003          (channel 0 only)               *)
(* The variable `variant` says which of the two is linked into the run.    *)
(*                                                                         *)
(* Numbers.  A JavaScript number x is represented by the integer           *)
(* round(x * Scale): the model computes in fixed point with resolution     *)
(* 1/Scale.  Scale is a power of two, so every represented sample is also  *)
(* an exact float32, and the int16 quantisation of the WAV writer is       *)
(* computed exactly.  sin, cos and tanh are computed by range reduction    *)
(* and series, rounded to the resolution.                                  *)
(***************************************************************************)
EXTENDS Integers, Sequences, FiniteSets, TLC

VARIABLES
    variant,    \* which audio service version runs: "multi" or "mono"
    wavBuf,     \* the AudioBuffer handed to bufferToWavBlob
    blobs,      \* the byte arrays returned by the calls made on wavBuf so far
    calls,      \* the encode/decode invocations, one record per slot
    audioContext, \* the module's AudioContext singleton: "null" until first used
    ui,         \* the React state of the mounted component
    pitchRun,   \* one call of extractPitch: its arguments and what it returned
    filterRun,  \* one LowPassFilter instance and the samples fed to it
    analysisRun \* the pitch analysis loop of one encode, step by step

vars == <<variant, wavBuf, blobs, calls, audioContext, ui,
          pitchRun, filterRun, analysisRun>>

Variants == {"multi", "mono"}

---------------------------------------------------------------------------
(* Bounds of the model *)

MaxChannels == 2
MaxFrames == 3
MaxWavCalls == 2
MaxRuns == 2
LongFrames == 24
MaxPresses == 4
MaxTasks == 3
MaxAppTasks == 2
MaxAppPresses == 1
MaxFeed == 40
MaxSteps == 4
CoefficientSlack == 1
ProbeRate == 800

---------------------------------------------------------------------------
(* Fixed-point arithmetic *)

Scale == 2 ^ 12

Abs(x) == IF x < 0 THEN -x ELSE x

Min(a, b) == IF a < b THEN a ELSE b

Max(a, b) == IF a > b THEN a ELSE b

\* a / b rounded to the nearest integer (b > 0)
RoundDiv(a, b) ==
    LET q == a \div b
        r == a % b
    IN  IF 2 * r >= b THEN q + 1 ELSE q

\* a / b truncated toward zero (b > 0): ECMAScript ToIntegerOrInfinity
Trunc(a, b) == IF a >= 0 THEN a \div b ELSE -((-a) \div b)

\* the product of two fixed-point numbers
Mul(a, b) == RoundDiv(a * b, Scale)

\* the quotient of two fixed-point numbers (b > 0)
Quot(a, b) == RoundDiv(a * Scale, b)

---------------------------------------------------------------------------
(* Audio buffers *)

SAMPLE_RATE == 44100

\* the sample rates an AudioBuffer reaches the service with: the rate the
\* context was asked for, and the hardware rate of a context that ignores it
SampleRates == {SAMPLE_RATE, 48000}

\* sample values: silence, full scale, beyond full scale, half scale, one step
SampleValues ==
    << 0, Scale, -Scale, 2 * Scale, -2 * Scale,
       Scale \div 2, -(Scale \div 2), 1, -1, 3 * Scale + 5, -Scale - 1 >>

NumSeeds == Len(SampleValues)

\* sample i of channel c (both from 0) of the test signal numbered seed
TestSample(seed, numChannels, c, i) ==
    SampleValues[((seed + i * numChannels + c) % NumSeeds) + 1]

AudioBuffer(sampleRate, numChannels, length, seed) ==
    [ sampleRate |-> sampleRate,
      numberOfChannels |-> numChannels,
      length |-> length,
      channels |-> [c \in 1..numChannels |->
                      [i \in 1..length |->
                         TestSample(seed, numChannels, c - 1, i - 1)]] ]

\* AudioBuffer.getChannelData(c), c from 0
getChannelData(buffer, c) == buffer.channels[c + 1]

InputBuffers ==
    { AudioBuffer(sr, nc, n, seed) :
        sr \in SampleRates, nc \in 1..MaxChannels,
        n \in 0..MaxFrames, seed \in 0..(NumSeeds - 1) }

---------------------------------------------------------------------------
(* DataView over a zero-filled ArrayBuffer: a sequence of bytes *)

ArrayBuffer(n) == [k \in 1..n |-> 0]

setUint8(view, o, v) == [view EXCEPT ![o + 1] = v % 256]

\* little-endian; v is reduced modulo 2^16
setUint16(view, o, v) ==
    LET u == v % 65536
    IN  [view EXCEPT ![o + 1] = u % 256, ![o + 2] = u \div 256]

\* little-endian; every value written here is in 0 .. 2^31 - 1
setUint32(view, o, v) ==
    [view EXCEPT ![o + 1] = v % 256,
                 ![o + 2] = (v \div 256) % 256,
                 ![o + 3] = (v \div 65536) % 256,
                 ![o + 4] = (v \div 16777216) % 256]

\* setInt16 of the number num/den: ToInt16 truncates toward zero, then wraps
setInt16(view, o, num, den) == setUint16(view, o, Trunc(num, den))

getUint16(view, o) == view[o + 1] + 256 * view[o + 2]

getUint32(view, o) ==
    view[o + 1] + 256 * view[o + 2] + 65536 * view[o + 3] + 16777216 * view[o + 4]

getInt16(view, o) ==
    LET u == getUint16(view, o)
    IN  IF u >= 32768 THEN u - 65536 ELSE u

RECURSIVE writeString(_, _, _)
writeString(view, o, s) ==
    IF s = << >> THEN view
    ELSE writeString(setUint8(view, o, Head(s)), o + 1, Tail(s))

\* charCodeAt of the four tags
TagRIFF == << 82, 73, 70, 70 >>
TagWAVE == << 87, 65, 86, 69 >>
TagFmt  == << 102, 109, 116, 32 >>
TagData == << 100, 97, 116, 97 >>

---------------------------------------------------------------------------
(* The invocations of encodeToBirdsong and decodeFromBirdsong.  An async
   function runs to its first await when it is called, and from one await to
   the next (or to its return) each time its timer fires. *)

Slots == 1..2

NoBuffer == [sampleRate |-> 0, numberOfChannels |-> 0, length |-> 0, channels |-> << >>]

NoChannel == [filters |-> << >>, dc |-> [x1 |-> 0, y1 |-> 0], phase |-> 0,
              out |-> << >>, steps |-> 0]

\* a slot before its first invocation, with the arguments it will be called with
IdleCall(fn, input, preset) ==
    [ pc |-> "idle", fn |-> fn, input |-> input, preset |-> preset, runs |-> 0,
      pitchCurve |-> << >>, c |-> 0, i |-> 0, chan |-> NoChannel,
      outputs |-> << >>, starts |-> << >>, result |-> NoBuffer ]

---------------------------------------------------------------------------
(* bufferToWavBlob *)

headerLength == 44
format == 1
bitDepth == 16

WavHeader(view, numChannels, sampleRate, totalLength, dataLength) ==
    LET v1  == writeString(view, 0, TagRIFF)
        v2  == setUint32(v1, 4, totalLength - 8)
        v3  == writeString(v2, 8, TagWAVE)
        v4  == writeString(v3, 12, TagFmt)
        v5  == setUint32(v4, 16, 16)
        v6  == setUint16(v5, 20, format)
        v7  == setUint16(v6, 22, numChannels)
        v8  == setUint32(v7, 24, sampleRate)
        v9  == setUint32(v8, 28, sampleRate * numChannels * 2)
        v10 == setUint16(v9, 32, numChannels * 2)
        v11 == setUint16(v10, 34, bitDepth)
        v12 == writeString(v11, 36, TagData)
    IN  setUint32(v12, 40, dataLength)

\* the mutant: no clamping before scaling
ClampNone(x) == x

\* Math.max(-1, Math.min(1, x))
Clamp(x) == Max(-Scale, Min(Scale, x))

\* the mutant: writes the quantised value back into the channel data
WriteSampleInPlace(st, c, i) ==
    LET s == Clamp(st.channels[c + 1][i + 1])
        q == IF s < 0 THEN s * 32768 ELSE s * 32767
    IN  [ view |-> setInt16(st.view, st.offset, q, Scale),
          offset |-> st.offset + 2,
          channels |-> [st.channels EXCEPT ![c + 1][i + 1] = Trunc(q, Scale)] ]

\* the body of the sample loop; st holds the locals view and offset and the
\* channel arrays getChannelData returned (live references into the buffer)
WriteSample(st, c, i) ==
    LET s == Clamp(st.channels[c + 1][i + 1])
    IN  [ view |-> setInt16(st.view, st.offset,
                            IF s < 0 THEN s * 32768 ELSE s * 32767, Scale),
          offset |-> st.offset + 2,
          channels |-> st.channels ]

\* for (i..) for (c..): the loop nest from frame i, channel c on
RECURSIVE InterleaveLoop(_, _, _, _, _)
InterleaveLoop(st, i, c, length, numChannels) ==
    IF i >= length THEN st
    ELSE IF c >= numChannels THEN InterleaveLoop(st, i + 1, 0, length, numChannels)
    ELSE InterleaveLoop(WriteSample(st, c, i), i, c + 1, length, numChannels)

\* src/services/audioService.ts
bufferToWavBlob_multi(buffer) ==
    LET numChannels == buffer.numberOfChannels
        length      == buffer.length
        dataLength  == length * numChannels * 2
        totalLength == headerLength + dataLength
        view == WavHeader(ArrayBuffer(totalLength), numChannels,
                          buffer.sampleRate, totalLength, dataLength)
    IN  InterleaveLoop([view |-> view, offset |-> 44, channels |-> buffer.channels],
                       0, 0, length, numChannels)

\* src/unnamed/part_003: only channel 0 is read
bufferToWavBlob_mono(buffer) ==
    LET numChannels == buffer.numberOfChannels
        data        == getChannelData(buffer, 0)
        dataLength  == Len(data) * 2
        totalLength == headerLength + dataLength
        view == WavHeader(ArrayBuffer(totalLength), numChannels,
                          buffer.sampleRate, totalLength, dataLength)
    IN  InterleaveLoop([view |-> view, offset |-> 44, channels |-> buffer.channels],
                       0, 0, Len(data), 1)

bufferToWavBlob(v, buffer) ==
    IF v = "multi" THEN bufferToWavBlob_multi(buffer)
    ELSE bufferToWavBlob_mono(buffer)

---------------------------------------------------------------------------
(* Math.sin, Math.cos, Math.tanh in fixed point *)

\* Math.PI and Math.SQRT2, rounded to the resolution
PiFx == 12868
Sqrt2Fx == 5793

\* x reduced to [-pi/2, pi/2] with the same sine
ReduceAngle(x) ==
    LET r == x % (2 * PiFx)
        s == IF r > PiFx THEN r - 2 * PiFx ELSE r
    IN  IF s > PiFx \div 2 THEN PiFx - s
        ELSE IF s < -(PiFx \div 2) THEN -PiFx - s
        ELSE s

\* the sine series on [-pi/2, pi/2], r2 = r * r:
\* r (1 - r2/6 (1 - r2/20 (1 - r2/42 (1 - r2/72))))
SinSeries(r, r2) ==
    Mul(r, Scale - Mul(RoundDiv(r2, 6),
             Scale - Mul(RoundDiv(r2, 20),
               Scale - Mul(RoundDiv(r2, 42),
                 Scale - RoundDiv(r2, 72)))))

\* the square of a fixed-point number
Square(h) == Mul(h, h)

\* the cosine series, r2 = r * r:
\* 1 - r2/2 (1 - r2/12 (1 - r2/30 (1 - r2/56)))
CosSeries(r2) ==
    Scale - Mul(RoundDiv(r2, 2),
              Scale - Mul(RoundDiv(r2, 12),
                Scale - Mul(RoundDiv(r2, 30),
                  Scale - RoundDiv(r2, 56))))

\* the sine on [-pi/2, pi/2]: the sine series up to pi/4, beyond it the
\* cosine series of the distance to pi/2, so that sin(pi/2) and cos(0) are
\* exactly 1, as Math.sin and Math.cos give them
SinReduced(r) ==
    IF Abs(r) <= PiFx \div 4 THEN SinSeries(r, Square(r))
    ELSE IF r > 0 THEN CosSeries(Square(PiFx \div 2 - r))
    ELSE -CosSeries(Square(PiFx \div 2 + r))

Sin(x) == SinReduced(ReduceAngle(x))

Cos(x) == Sin(x + PiFx \div 2)

\* e^(-y) for y >= 0: halve the argument down to 1/4, take the series
\* 1 - y (1 - y/2 (1 - y/3 (1 - y/4))), then square back
RECURSIVE ExpNeg(_)
ExpNeg(y) ==
    IF y >= 16 * Scale THEN 0
    ELSE IF y > Scale \div 4 THEN Square(ExpNeg(RoundDiv(y, 2)))
    ELSE Scale - Mul(y, Scale - Mul(RoundDiv(y, 2),
                      Scale - Mul(RoundDiv(y, 3), Scale - RoundDiv(y, 4))))

\* (1 - e) / (1 + e)
TanhFromExp(e) == RoundDiv((Scale - e) * Scale, Scale + e)

\* tanh(x) = (1 - e^(-2|x|)) / (1 + e^(-2|x|)) with the sign of x; it rounds
\* to exactly 1 once e^(-2|x|) is below the resolution, as a float rounds
Tanh(x) ==
    IF x < 0 THEN -TanhFromExp(ExpNeg(2 * Abs(x)))
    ELSE TanhFromExp(ExpNeg(2 * Abs(x)))

---------------------------------------------------------------------------
(* class LowPassFilter, class DCBlocker *)

\* the constructor's last step: the coefficients divided by a0_div
LowPassFilter_normalize(b0, a1, b1, b2, a0_div) ==
    [ a0 |-> Quot(b0, a0_div),
      a1 |-> Quot(a1, a0_div),
      a2 |-> Quot(b0, a0_div),
      b1 |-> Quot(b1, a0_div),
      b2 |-> Quot(b2, a0_div),
      x1 |-> 0, x2 |-> 0, y1 |-> 0, y2 |-> 0 ]

\* the mutant: a1 is the half of 1 - cs, as a0 and a2 are
LowPassFilter_coefficientsHalf(alpha, cs) ==
    LowPassFilter_normalize(RoundDiv(Scale - cs, 2), RoundDiv(Scale - cs, 2), -2 * cs,
                            Scale - alpha, Scale + alpha)

\* the constructor from alpha = sn / (2 * Math.SQRT2) and cs on
LowPassFilter_coefficients(alpha, cs) ==
    LowPassFilter_normalize(RoundDiv(Scale - cs, 2), Scale - cs, -2 * cs,
                            Scale - alpha, Scale + alpha)

LowPassFilter_omega(omega) ==
    LowPassFilter_coefficients(RoundDiv(Sin(omega) * Scale, 2 * Sqrt2Fx), Cos(omega))

\* new LowPassFilter(cutoff, sampleRate): cutoff and sampleRate in Hz
LowPassFilter(cutoff, sampleRate) ==
    LowPassFilter_omega(RoundDiv((2 * PiFx) * cutoff, sampleRate))

\* LowPassFilter.process: the output sample
LowPassFilter_y(f, sample) ==
    RoundDiv(f.a0 * sample + f.a1 * f.x1 + f.a2 * f.x2
               - f.b1 * f.y1 - f.b2 * f.y2, Scale)

\* LowPassFilter.process: the filter after the call
LowPassFilter_process(f, sample) ==
    [f EXCEPT !.x2 = f.x1, !.x1 = sample,
              !.y2 = f.y1, !.y1 = LowPassFilter_y(f, sample)]

\* DCBlocker.r = 0.995
DCBlocker_r == RoundDiv(995 * Scale, 1000)

\* new DCBlocker()
DCBlocker == [x1 |-> 0, y1 |-> 0]

DCBlocker_y(d, sample) == sample - d.x1 + Mul(DCBlocker_r, d.y1)

DCBlocker_process(d, sample) ==
    [x1 |-> sample, y1 |-> DCBlocker_y(d, sample)]

\* no filter constructed
NoFilterRun == [pc |-> "idle", cutoff |-> 0, level |-> 0, fed |-> 0, y |-> 0,
                f |-> LowPassFilter_normalize(0, 0, 0, 0, Scale)]

\* new LowPassFilter(filterRun.cutoff, SAMPLE_RATE)
FilterNew ==
    /\ filterRun.pc = "idle"
    /\ filterRun' = [filterRun EXCEPT
                        !.pc = "built",
                        !.f = LowPassFilter(filterRun.cutoff, SAMPLE_RATE)]
    /\ UNCHANGED <<variant, wavBuf, blobs, calls, audioContext, ui,
                   pitchRun, analysisRun>>

\* filterRun.f.process(filterRun.level): the instance is fed its level once more
FilterProcess ==
    /\ filterRun.pc = "built"
    /\ filterRun.fed < MaxFeed
    /\ filterRun' = [filterRun EXCEPT
                        !.f = LowPassFilter_process(filterRun.f, filterRun.level),
                        !.y = LowPassFilter_y(filterRun.f, filterRun.level),
                        !.fed = filterRun.fed + 1]
    /\ UNCHANGED <<variant, wavBuf, blobs, calls, audioContext, ui,
                   pitchRun, analysisRun>>

---------------------------------------------------------------------------
(* Presets *)

ENCODE_PRESETS ==
    << [id |-> "turdus", carrierBaseFreq |-> 4000, pitchMultiplier |-> 16,
        inputLpfCutoff |-> 2500],
       [id |-> "erithacus", carrierBaseFreq |-> 5500, pitchMultiplier |-> 20,
        inputLpfCutoff |-> 3000],
       [id |-> "strix", carrierBaseFreq |-> 2000, pitchMultiplier |-> 8,
        inputLpfCutoff |-> 1200] >>

DECODE_PRESETS ==
    << [id |-> "std", lpfCutoff |-> 2500, filterStages |-> 3, gainMultiplier |-> 8],
       [id |-> "wide", lpfCutoff |-> 3500, filterStages |-> 2, gainMultiplier |-> 6],
       [id |-> "narrow", lpfCutoff |-> 1500, filterStages |-> 4, gainMultiplier |-> 12] >>

Range(seq) == { seq[k] : k \in 1..Len(seq) }

---------------------------------------------------------------------------
(* extractPitch *)

FFT_SIZE == 2048
pitchAnalysisStep == 512

\* The samples of a window are whole numbers of 1/unit: unit is Scale for
\* the samples of a channel, and numberOfChannels * Scale for the mono mix,
\* which holds the sum of the channels over their number.

\* sum of buffer[k]^2 for lo <= k <= hi, in units of 1/unit^2, capped at 2^29
RECURSIVE SumSquares(_, _, _)
SumSquares(buffer, lo, hi) ==
    IF lo > hi THEN 0
    ELSE IF lo = hi THEN Min(2 ^ 29, buffer[lo] * buffer[lo])
    ELSE LET mid == (lo + hi) \div 2
         IN  Min(2 ^ 29, SumSquares(buffer, lo, mid) + SumSquares(buffer, mid + 1, hi))

\* sum/n < 0.0004 for the sum s of n squares: s * 10000 < n * 4 * unit^2,
\* with d = s - n * ((4 * unit^2) \div 10000)
SilenceTest(n, d, unit) ==
    /\ n > 0
    /\ \/ d < 0
       \/ d < n /\ d * 10000 < n * ((4 * unit * unit) % 10000)

\* rms < 0.02
SilenceGate(buffer, unit) ==
    SilenceTest(Len(buffer),
                SumSquares(buffer, 1, Len(buffer))
                  - Len(buffer) * ((4 * unit * unit) \div 10000),
                unit)

\* A correlation sum is kept exact, as the code's double keeps it: a sum of
\* products of two samples is (units * Scale + rest) / unit^2, with
\* 0 <= rest < Scale.

\* sum += a * b
ExactAdd(sum, a, b) ==
    [ units |-> sum.units + (sum.rest + a * b) \div Scale,
      rest |-> (sum.rest + a * b) % Scale ]

\* s > t
ExactAbove(s, t) ==
    \/ s.units > t.units
    \/ s.units = t.units /\ s.rest > t.rest

\* let bestCorrelation = -1
ExactMinusOne(unit) ==
    [units |-> (-(unit * unit)) \div Scale, rest |-> (-(unit * unit)) % Scale]

\* sum after the terms i = 2 * lo, 2 * lo + 2, ..., 2 * hi of the loop
\* sum += buffer[i] * buffer[i + period], in ascending order: the first half
\* of the range, then the second half from the sum of the first.  (rest is
\* never negative: its test only makes TLC compute the sum so far before it
\* descends.)
RECURSIVE CorrelationTerms(_, _, _, _, _)
CorrelationTerms(buffer, period, lo, hi, sum) ==
    IF lo > hi \/ sum.rest < 0 THEN sum
    ELSE IF lo = hi
    THEN ExactAdd(sum, buffer[2 * lo + 1], buffer[2 * lo + period + 1])
    ELSE CorrelationTerms(buffer, period, (lo + hi) \div 2 + 1, hi,
                          CorrelationTerms(buffer, period, lo, (lo + hi) \div 2, sum))

\* the correlation sum of one period: sum = 0, then the terms
\* i = from, from + 2, ... < length - period (from is even)
Correlation(buffer, period, from) ==
    CorrelationTerms(buffer, period, from \div 2,
                     (Len(buffer) - period - 1) \div 2,
                     [units |-> 0, rest |-> 0])

\* if (sum > bestCorrelation) { bestCorrelation = sum; bestPeriod = period }
BetterPeriod(best, sum, period) ==
    IF ExactAbove(sum, best.correlation)
    THEN [correlation |-> sum, period |-> period]
    ELSE best

\* the scan over the periods period .. maxPeriod - 1, in ascending order:
\* the first half of the range, then the second half from the best of the
\* first; best = [correlation, period].  (bestPeriod is never negative: its
\* test only makes TLC compute the best so far before it descends.)
RECURSIVE PeriodScan(_, _, _, _)
PeriodScan(buffer, period, maxPeriod, best) ==
    IF period >= maxPeriod \/ best.period < 0 THEN best
    ELSE IF maxPeriod = period + 1
    THEN BetterPeriod(best, Correlation(buffer, period, 0), period)
    ELSE PeriodScan(buffer, (period + maxPeriod) \div 2, maxPeriod,
                    PeriodScan(buffer, period, (period + maxPeriod) \div 2, best))

\* bestPeriod > 0 ? sampleRate / bestPeriod : 0
PitchOf(best, sampleRate) ==
    IF best.period > 0 THEN Quot(sampleRate, best.period) ELSE 0

\* the pitch in Hz (fixed point) of a window of samples in 1/unit; 0 for
\* silence
extractPitch(buffer, sampleRate, unit) ==
    IF SilenceGate(buffer, unit) THEN 0
    ELSE PitchOf(PeriodScan(buffer, sampleRate \div 400, sampleRate \div 70,
                            [correlation |-> ExactMinusOne(unit), period |-> 0]),
                 sampleRate)

\* no call of extractPitch made
NoPitchRun == [pc |-> "idle", buffer |-> << >>, sampleRate |-> 0, pitch |-> 0]

\* extractPitch(buffer, sampleRate) is called with the arguments of pitchRun
\* and returns
ExtractPitch ==
    /\ pitchRun.pc = "idle"
    /\ pitchRun' = [pitchRun EXCEPT !.pc = "done",
                                    !.pitch = extractPitch(pitchRun.buffer,
                                                           pitchRun.sampleRate,
                                                           Scale)]
    /\ UNCHANGED <<variant, wavBuf, blobs, calls, audioContext, ui,
                   filterRun, analysisRun>>

---------------------------------------------------------------------------
(* encodeToBirdsong: the pitch curve *)

\* the mono mix the pitch analysis reads (audioService.ts), in units of
\* 1 / (numberOfChannels * Scale): sample i is the sum of the channels at i,
\* which the code divides by numChannels; one channel is read as it is
Downmix(buffer) ==
    IF buffer.numberOfChannels = 1 THEN getChannelData(buffer, 0)
    ELSE [i \in 1..buffer.length |->
            LET RECURSIVE Sum(_)
                Sum(c) == IF c >= buffer.numberOfChannels THEN 0
                          ELSE getChannelData(buffer, c)[i] + Sum(c + 1)
            IN  Sum(0)]

\* the mutant: a found pitch is taken as it is
SmoothPitchRaw(lastPitch, found) ==
    IF found = 0 THEN lastPitch ELSE found

\* the pitch of a frame: the last pitch held when nothing was found, else
\* lastPitch * 0.8 + pitch * 0.2
SmoothPitch(lastPitch, found) ==
    IF found = 0 THEN lastPitch ELSE RoundDiv(lastPitch * 8 + found * 2, 10)

\* the curve with the step at start filled with pitch (below totalLength)
FillStep(curve, start, pitch) ==
    [idx \in 1..Len(curve) |->
       IF idx - 1 >= start /\ idx - 1 < start + pitchAnalysisStep
       THEN pitch ELSE curve[idx]]

\* one analysed frame: st = [curve, lastPitch]; lastPitch moves only when a
\* pitch was found
FrameDone(st, start, found) ==
    [ curve |-> FillStep(st.curve, start, SmoothPitch(st.lastPitch, found)),
      lastPitch |-> IF found = 0 THEN st.lastPitch
                    ELSE SmoothPitch(st.lastPitch, found) ]

\* the analysis loop from frame i on; it breaks at the first frame with
\* fewer than FFT_SIZE/2 samples left
RECURSIVE PitchFrames(_, _, _, _, _, _)
PitchFrames(st, data, unit, i, numFrames, totalLength) ==
    IF i >= numFrames THEN st
    ELSE IF Min(i * pitchAnalysisStep + FFT_SIZE, totalLength) - i * pitchAnalysisStep
              < FFT_SIZE \div 2 THEN st
    ELSE PitchFrames(
           FrameDone(st, i * pitchAnalysisStep,
                     extractPitch(SubSeq(data, i * pitchAnalysisStep + 1,
                                         Min(i * pitchAnalysisStep + FFT_SIZE, totalLength)),
                                  SAMPLE_RATE, unit)),
           data, unit, i + 1, numFrames, totalLength)

\* new Float32Array(totalLength), then the analysis loop with lastPitch = 120
\* over the samples data, given in 1/unit
PitchCurve(data, unit, totalLength) ==
    PitchFrames([curve |-> [idx \in 1..totalLength |-> 0], lastPitch |-> 120 * Scale],
                data, unit, 0, (totalLength + pitchAnalysisStep - 1) \div pitchAnalysisStep,
                totalLength).curve

\* the analysis loop before its first step: the curve of totalLength zeros,
\* lastPitch = 120; founds keeps what extractPitch returned at each step
NewAnalysisRun(totalLength) ==
    [ i |-> 0, totalLength |-> totalLength,
      st |-> [curve |-> [idx \in 1..totalLength |-> 0], lastPitch |-> 120 * Scale],
      founds |-> << >> ]

NoAnalysisRun == NewAnalysisRun(0)

\* one turn of the analysis loop, for the frame analysisRun.i, in which
\* extractPitch returns found
AnalyseFrame(found) ==
    /\ analysisRun.i < (analysisRun.totalLength + pitchAnalysisStep - 1)
                          \div pitchAnalysisStep
    /\ Min(analysisRun.i * pitchAnalysisStep + FFT_SIZE, analysisRun.totalLength)
          - analysisRun.i * pitchAnalysisStep >= FFT_SIZE \div 2
    /\ analysisRun' = [analysisRun EXCEPT
                          !.st = FrameDone(analysisRun.st,
                                           analysisRun.i * pitchAnalysisStep, found),
                          !.i = analysisRun.i + 1,
                          !.founds = Append(analysisRun.founds, found)]
    /\ UNCHANGED <<variant, wavBuf, blobs, calls, audioContext, ui,
                   pitchRun, filterRun>>

---------------------------------------------------------------------------
(* encodeToBirdsong and decodeFromBirdsong: the sample loops *)

\* modulationIndex = 0.8
modulationIndex == RoundDiv(8 * Scale, 10)

\* 2 * Math.PI * carrierFreq / SAMPLE_RATE; carrierFreq in Hz (fixed point),
\* taken to a quarter of a Hz
PhaseStep(carrierFreq) ==
    RoundDiv((2 * PiFx) * RoundDiv(carrierFreq, Scale \div 4), 4 * SAMPLE_RATE)

\* the mutant: the sample is stored without the soft clip
SoftClipNone(sample) == sample

\* Math.tanh(sample * 0.5)
SoftClip(sample) == Tanh(RoundDiv(sample, 2))

\* The state of one channel's pass: the filter chain, the DC blocker, the
\* carrier phase, the output samples written so far, and the number of
\* turns of the sample loop (each calls process() once on every filter).

\* Math.sin(i * 0.001) * 50
Vibrato(i) == Sin(RoundDiv(i * Scale, 1000)) * 50

\* envelope * Math.sin(carrierPhase + vibrato), soft-clipped and stored
EncodeStore(st, x, speechSample, carrierPhase, i) ==
    [ st EXCEPT !.filters = << LowPassFilter_process(st.filters[1], x) >>,
                !.phase = carrierPhase,
                !.out = Append(st.out,
                          SoftClip(Mul(Scale + Mul(speechSample * 3, modulationIndex),
                                       Sin(carrierPhase + Vibrato(i))))),
                !.steps = st.steps + 1 ]

\* one turn of the encoder's sample loop on the sample x of index i
EncodeSample(st, x, i, currentPitch, preset) ==
    EncodeStore(st, x, LowPassFilter_y(st.filters[1], x),
                st.phase + PhaseStep(preset.carrierBaseFreq * Scale
                                       + currentPitch * preset.pitchMultiplier),
                i)

\* for (const f of filters) recovered = f.process(recovered), from filter k on;
\* r = [filters, recovered]
RECURSIVE FilterChain(_, _)
FilterChain(r, k) ==
    IF k > Len(r.filters) THEN r
    ELSE FilterChain(
           [ filters |-> [r.filters EXCEPT ![k] = LowPassFilter_process(@, r.recovered)],
             recovered |-> LowPassFilter_y(r.filters[k], r.recovered) ],
           k + 1)

\* the mutant: the output sample is clamped to [-1, 1]
DecodeStoreClipped(st, chain, preset) ==
    [ st EXCEPT !.filters = chain.filters,
                !.dc = DCBlocker_process(st.dc, chain.recovered),
                !.out = Append(st.out,
                               Max(-Scale, Min(Scale,
                                   DCBlocker_y(st.dc, chain.recovered)
                                     * preset.gainMultiplier))),
                !.steps = st.steps + 1 ]

\* the DC blocker and the makeup gain on the output of the chain
DecodeStore(st, chain, preset) ==
    [ st EXCEPT !.filters = chain.filters,
                !.dc = DCBlocker_process(st.dc, chain.recovered),
                !.out = Append(st.out,
                               DCBlocker_y(st.dc, chain.recovered) * preset.gainMultiplier),
                !.steps = st.steps + 1 ]

\* one turn of the decoder's sample loop on the sample x
DecodeSample(st, x, preset) ==
    DecodeStore(st, FilterChain([filters |-> st.filters, recovered |-> Abs(x)], 1), preset)

\* one turn of the sample loop, for the sample of index i
SampleStep(fn, st, data, pitchCurve, preset, i) ==
    IF fn = "encode"
    THEN EncodeSample(st, data[i + 1], i, pitchCurve[i + 1], preset)
    ELSE DecodeSample(st, data[i + 1], preset)

\* the sample loop for i = from .. to - 1, in ascending order: the first
\* half of the range, then the second half from the state the first left.
\* (The turn count is never negative: its test only makes TLC compute the
\* state the range starts from before it descends into the range.)
RECURSIVE SampleLoop(_, _, _, _, _, _, _)
SampleLoop(fn, st, data, pitchCurve, preset, from, to) ==
    IF from >= to \/ st.steps < 0 THEN st
    ELSE IF to = from + 1 THEN SampleStep(fn, st, data, pitchCurve, preset, from)
    ELSE SampleLoop(fn,
                    SampleLoop(fn, st, data, pitchCurve, preset,
                               from, (from + to) \div 2),
                    data, pitchCurve, preset, (from + to) \div 2, to)

\* the filter chain a pass constructs: one low-pass at inputLpfCutoff for the
\* encoder, filterStages low-passes at lpfCutoff for the decoder
NewFilters(fn, preset) ==
    IF fn = "encode"
    THEN << LowPassFilter(preset.inputLpfCutoff, SAMPLE_RATE) >>
    ELSE [k \in 1..preset.filterStages |-> LowPassFilter(preset.lpfCutoff, SAMPLE_RATE)]

\* the mutant: the filters, the DC blocker and the phase are built once and
\* kept between passes
ChannelStartKept(call) ==
    IF call.chan.filters = << >>
    THEN [ filters |-> NewFilters(call.fn, call.preset), dc |-> DCBlocker,
           phase |-> 0, out |-> << >>, steps |-> 0 ]
    ELSE [ call.chan EXCEPT !.out = << >>, !.steps = 0 ]

\* the locals a pass over one channel starts with: new LowPassFilter(...),
\* new DCBlocker(), carrierPhase = 0, and the output array still unwritten
ChannelStart(call) ==
    [ filters |-> NewFilters(call.fn, call.preset), dc |-> DCBlocker,
      phase |-> 0, out |-> << >>, steps |-> 0 ]

---------------------------------------------------------------------------
(* encodeToBirdsong and decodeFromBirdsong: the calls *)

YieldEvery == 10000

\* BaseAudioContext.createBuffer throws NotSupportedError for a channel count
\* or a length below 1 (Web Audio API)
createBufferThrows(numChannels, length) == numChannels < 1 \/ length < 1

\* what the pass state holds when the first sample of a channel is reached
Snapshot(st) == [filters |-> st.filters, dc |-> st.dc, phase |-> st.phase]

\* the invocation at the await that ends a channel's pass
PassDone(call, c, start, st) ==
    [ call EXCEPT !.pc = "yield", !.c = c, !.i = call.input.length,
                  !.chan = st,
                  !.outputs = Append(call.outputs, st.out),
                  !.starts = Append(call.starts, Snapshot(start)) ]

\* the mutant: every pass reads the mono mix of the input instead of its channel
PassFromMixed(call, c, start) ==
    PassDone(call, c, start,
             SampleLoop(call.fn, start,
                        [i \in 1..call.input.length |->
                           RoundDiv(Downmix(call.input)[i],
                                    call.input.numberOfChannels)],
                        call.pitchCurve, call.preset, 0, call.input.length))

\* the pass over channel c from the locals start
PassFrom(call, c, start) ==
    PassDone(call, c, start,
             SampleLoop(call.fn, start, getChannelData(call.input, c),
                        call.pitchCurve, call.preset, 0, call.input.length))

\* audioService.ts: the pass over channel c, all samples, up to the await
ChannelPass(call, c) == PassFrom(call, c, ChannelStart(call))

\* the invocation as the call finds it: the results of the last one dropped
Begun(call, pitchCurve) ==
    [ call EXCEPT !.runs = call.runs + 1, !.outputs = << >>, !.starts = << >>,
                  !.c = 0, !.i = 0, !.result = NoBuffer, !.pitchCurve = pitchCurve ]

\* audioService.ts: createBuffer, then the first pass
Start_multi(begun) ==
    IF createBufferThrows(begun.input.numberOfChannels, begun.input.length)
    THEN [begun EXCEPT !.pc = "failed"]
    ELSE ChannelPass(begun, 0)

\* audioService.ts: the call, up to the first await or the throw
Call_multi(call) ==
    Start_multi(Begun(call, IF call.fn = "encode"
                            THEN PitchCurve(Downmix(call.input),
                                            call.input.numberOfChannels * Scale,
                                            call.input.length)
                            ELSE << >>))

\* the AudioBuffer an invocation returns
Returned(numChannels, length, channels) ==
    [ sampleRate |-> SAMPLE_RATE, numberOfChannels |-> numChannels,
      length |-> length, channels |-> channels ]

\* audioService.ts: after the await: the next channel, or the return
Resume_multi(call) ==
    IF call.c + 1 < call.input.numberOfChannels
    THEN ChannelPass(call, call.c + 1)
    ELSE [ call EXCEPT !.pc = "done",
                       !.result = Returned(call.input.numberOfChannels,
                                           call.input.length, call.outputs) ]

\* part_003: where a segment of the sample loop ends: at the await taken
\* after the sample stop, or at the end of the loop, createBuffer and the return
SegmentEnd(call, after, stop, totalLength) ==
    IF stop < totalLength
    THEN [ call EXCEPT !.pc = "yield", !.i = stop, !.chan = after ]
    ELSE IF createBufferThrows(1, totalLength)
    THEN [ call EXCEPT !.pc = "failed", !.i = totalLength, !.chan = after ]
    ELSE [ call EXCEPT !.pc = "done", !.i = totalLength, !.chan = after,
                       !.outputs = << after.out >>,
                       !.result = Returned(1, totalLength, << after.out >>) ]

\* part_003: the samples from..stop of channel 0 (stop is the next multiple
\* of YieldEvery), or from..the last
SegmentTo(call, st, from, stop, totalLength) ==
    SegmentEnd(call,
               SampleLoop(call.fn, st, getChannelData(call.input, 0), call.pitchCurve,
                          call.preset, from, Min(totalLength, stop + 1)),
               stop, totalLength)

\* part_003: the sample loop of channel 0 from sample `from` to the next
\* await (if (i % 10000 === 0) await ...) or to the return
Segment_mono(call, st, from) ==
    SegmentTo(call, st, from, ((from + YieldEvery - 1) \div YieldEvery) * YieldEvery,
              Len(getChannelData(call.input, 0)))

\* part_003: the first segment from the locals start
Start_mono(begun, start) ==
    Segment_mono([begun EXCEPT !.starts = IF begun.input.length > 0
                                          THEN << Snapshot(start) >> ELSE << >>],
                 start, 0)

\* part_003: the call, up to the first await, the return or the throw
Call_mono(call) ==
    Start_mono(Begun(call, IF call.fn = "encode"
                           THEN PitchCurve(getChannelData(call.input, 0), Scale,
                                            call.input.length)
                           ELSE << >>),
               ChannelStart(call))

\* the mutant: the filters and the phase are built again after the await
Resume_monoRestart(call) ==
    Segment_mono(call,
                 [ChannelStart(call) EXCEPT !.out = call.chan.out,
                                            !.steps = call.chan.steps],
                 call.i + 1)

\* the mutant: the loop goes through the sample of the await a second time
Resume_monoAgain(call) == Segment_mono(call, call.chan, call.i)

\* part_003: after the await
Resume_mono(call) == Segment_mono(call, call.chan, call.i + 1)

\* getAudioContext() is called: the module's AudioContext is created if
\* there is none
GetAudioContext ==
    /\ audioContext' = "ctx"
    /\ UNCHANGED <<variant, wavBuf, blobs, calls, ui, pitchRun, filterRun,
                   analysisRun>>

\* playBuffer(buffer) is called, up to MaxRuns times: it gets the
\* AudioContext; when ctx.state reads 'suspended' it calls ctx.resume() and
\* waits, otherwise it creates a node of its own and starts it.  No state of
\* the module keeps the node and it has no ended handler: ui.nodes counts
\* the nodes that were started, ui.tasks holds the calls that wait.
playBuffer ==
    /\ ui.started < MaxRuns
    /\ audioContext' = "ctx"
    /\ ui' = IF ui.context = "suspended"
             THEN [ ui EXCEPT !.started = @ + 1,
                              !.tasks = @ \cup {[ id |-> ui.started + 1,
                                                  pc |-> "playBuffer" ]} ]
             ELSE [ ui EXCEPT !.started = @ + 1, !.nodes = @ + 1 ]
    /\ UNCHANGED <<variant, wavBuf, blobs, calls, pitchRun, filterRun,
                   analysisRun>>

\* ctx.resume() settles for the calls of playBuffer that wait for it: the
\* context runs, and each of them creates its node and starts it
playBufferResumed ==
    /\ ui.context = "suspended"
    /\ \E t \in ui.tasks : t.pc = "playBuffer"
    /\ ui' = [ ui EXCEPT !.context = "running",
                         !.nodes = @ + Cardinality({ t \in ui.tasks :
                                                      t.pc = "playBuffer" }),
                         !.tasks = { t \in @ : t.pc # "playBuffer" } ]
    /\ UNCHANGED <<variant, wavBuf, blobs, calls, audioContext, pitchRun,
                   filterRun, analysisRun>>

\* the browser suspends the context that runs (the page goes to the
\* background, the audio session is interrupted): ctx.state reads
\* 'suspended' until a resume() has settled
contextSuspended ==
    /\ ui.context = "running"
    /\ ui' = [ui EXCEPT !.context = "suspended"]
    /\ UNCHANGED <<variant, wavBuf, blobs, calls, audioContext, pitchRun,
                   filterRun, analysisRun>>

\* encodeToBirdsong(input, preset) or decodeFromBirdsong(input, preset) is
\* called with the arguments of slot k
Call(k) ==
    /\ calls[k].pc \in {"idle", "done", "failed"}
    /\ calls[k].runs < MaxRuns
    /\ audioContext' = "ctx"
    /\ calls' = [calls EXCEPT ![k] = IF variant = "multi" THEN Call_multi(@)
                                     ELSE Call_mono(@)]
    /\ UNCHANGED <<variant, wavBuf, blobs, ui, pitchRun, filterRun, analysisRun>>

\* the timer of the invocation in slot k fires
Resume(k) ==
    /\ calls[k].pc = "yield"
    /\ calls' = [calls EXCEPT ![k] = IF variant = "multi" THEN Resume_multi(@)
                                     ELSE Resume_mono(@)]
    /\ UNCHANGED <<variant, wavBuf, blobs, audioContext, ui, pitchRun, filterRun, analysisRun>>

---------------------------------------------------------------------------
(* App: the state of the component and the preset selector *)

Tabs == {"encode", "decode"}

\* the two versions of the component: src/App.tsx, where the main button
\* starts the processing of a captured source (processAudio), and
\* src/unnamed/part_001, where a captured source is processed at once
\* (runProcessing)
Components == {"App", "part_001"}

\* The audio buffers the component holds.  Only their origin matters to the
\* component: null, the buffer decodeAudioData returned for the recording or
\* file that invocation n of a handler read, the buffer encodeToBirdsong or
\* decodeFromBirdsong returned for a buffer and the preset of an index, and
\* the buffer decodeAudioData returned for the WAV blob of a result.
Null == [op |-> "null"]
Source(n) == [op |-> "source", n |-> n]
Encoded(buffer, index) == [op |-> "encode", of |-> buffer, preset |-> index]
Decoded(buffer, index) == [op |-> "decode", of |-> buffer, preset |-> index]
FromBlob(result) == [op |-> "wav", of |-> result]

\* the state of the component when it mounts: tab 'encode', input 'mic',
\* 'idle', 'READY', both preset indexes 0, no buffers, the log closed.
\* Beside the React state and the refs (recorder: mediaRecorderRef and the
\* tab and preset index its onstop handler closed over; sourceNode:
\* sourceNodeRef holds a node; fileDialog: the file chooser of the hidden
\* input is open) the record keeps nodes, the nodes that were started and
\* have not fired their ended event, tasks, the invocations of handlers that
\* wait at an await, started, the number of invocations made so far,
\* trail, for every cyclePreset call made so far its direction and the index
\* of the active tab it found, and context, what ctx.state reads when a
\* handler gets the AudioContext of the service: the browser creates it
\* 'running', or 'suspended' until resume() has settled.
AppMounted ==
    [ component |-> "App",
      tab |-> "encode", inputType |-> "mic", appState |-> "idle",
      statusText |-> "READY",
      encodePresetIndex |-> 0, decodePresetIndex |-> 0,
      sourceAudio |-> Null, processedAudio |-> Null,
      showHistory |-> FALSE, historyItems |-> << >>, isPlaying |-> FALSE,
      recorder |-> [state |-> "none", mode |-> "encode", preset |-> 0],
      sourceNode |-> "none", nodes |-> 0, fileDialog |-> FALSE,
      context |-> "suspended",
      tasks |-> {}, started |-> 0,
      trail |-> << >> ]

\* the mutant: the index stops at the ends of the table
cyclePresetIndexStop(prev, direction, len) ==
    Max(0, Min(len - 1, prev + direction))

\* (prev + direction + len) % len
cyclePresetIndex(prev, direction, len) == (prev + direction + len) % len

\* the index of the preset the active tab shows
ActivePresetIndex(u) ==
    IF u.tab = "encode" THEN u.encodePresetIndex ELSE u.decodePresetIndex

\* the mutant: an arrow moves the indexes of both tabs
cyclePresetStateBoth(u, direction) ==
    [ u EXCEPT !.encodePresetIndex =
                   cyclePresetIndex(@, direction, Len(ENCODE_PRESETS)),
               !.decodePresetIndex =
                   cyclePresetIndex(@, direction, Len(DECODE_PRESETS)),
               !.trail = Append(@, [direction |-> direction,
                                    before |-> ActivePresetIndex(u)]) ]

\* the state after cyclePreset(direction)
cyclePresetState(u, direction) ==
    IF u.tab = "encode"
    THEN [ u EXCEPT !.encodePresetIndex =
                        cyclePresetIndex(@, direction, Len(ENCODE_PRESETS)),
                    !.trail = Append(@, [direction |-> direction,
                                         before |-> u.encodePresetIndex]) ]
    ELSE [ u EXCEPT !.decodePresetIndex =
                        cyclePresetIndex(@, direction, Len(DECODE_PRESETS)),
                    !.trail = Append(@, [direction |-> direction,
                                         before |-> u.decodePresetIndex]) ]

\* the controls of the panel take an event: the file chooser, which is
\* modal, is not open.  The log modal is drawn over the panel, which stays
\* rendered with its handlers bound and still takes the click of a key
\* press or of element.click().
PanelOpen(u) == ~u.fileDialog

\* the controls of the log modal take an event: the modal is rendered and
\* the file chooser is not open
LogOpen(u) == u.showHistory /\ ~u.fileDialog

\* one of the two arrows of the preset selector is pressed.  App.tsx renders
\* the selector only in 'idle'; part_001 renders it in every state (outside
\* 'idle' it is transparent and takes no pointer events, but still the
\* click of a key press), and cyclePreset itself does not test appState.
cyclePreset(direction) ==
    /\ Len(ui.trail) < MaxPresses
    /\ PanelOpen(ui)
    /\ ui.component = "App" => ui.appState = "idle"
    /\ ui' = cyclePresetState(ui, direction)
    /\ UNCHANGED <<variant, wavBuf, blobs, calls, audioContext, pitchRun,
                 filterRun, analysisRun>>

---------------------------------------------------------------------------
(* The serialisation runs: a buffer is serialised up to MaxWavCalls times *)

WavInit ==
    /\ variant \in Variants
    /\ wavBuf \in InputBuffers
    /\ blobs = << >>
    /\ calls = [k \in Slots |-> IdleCall("decode", NoBuffer, DECODE_PRESETS[1])]
    /\ audioContext = "null"
    /\ ui = AppMounted
    /\ pitchRun = NoPitchRun
    /\ filterRun = NoFilterRun
    /\ analysisRun = NoAnalysisRun

\* one call of bufferToWavBlob(wavBuf)
Serialize ==
    /\ Len(blobs) < MaxWavCalls
    /\ LET st == bufferToWavBlob(variant, wavBuf)
       IN  /\ blobs' = Append(blobs, st.view)
           /\ wavBuf' = [wavBuf EXCEPT !.channels = st.channels]
    /\ UNCHANGED <<variant, calls, audioContext, ui, pitchRun, filterRun, analysisRun>>

WavNext == Serialize

SpecWav == WavInit /\ [][WavNext]_vars

---------------------------------------------------------------------------
(* The codec runs: one slot is called, with every argument of the families *)

\* presets a caller can pass beside the tables: a cutoff at Nyquist, a cutoff
\* of 0, no filter stage, no gain
BadEncodePresets ==
    { [ENCODE_PRESETS[1] EXCEPT !.id = "nyquist", !.inputLpfCutoff = SAMPLE_RATE \div 2],
      [ENCODE_PRESETS[1] EXCEPT !.id = "zero", !.inputLpfCutoff = 0] }

BadDecodePresets ==
    { [DECODE_PRESETS[1] EXCEPT !.id = "nyquist", !.lpfCutoff = SAMPLE_RATE \div 2],
      [DECODE_PRESETS[1] EXCEPT !.id = "nostage", !.filterStages = 0],
      [DECODE_PRESETS[1] EXCEPT !.id = "nogain", !.gainMultiplier = 0] }

CodecSeeds == {0, 3, 5, 6}

\* a one-channel buffer of LongFrames frames that holds the level x throughout:
\* long enough for the low-pass output to settle at the level
SteadyBuffer(x) ==
    [ sampleRate |-> SAMPLE_RATE, numberOfChannels |-> 1, length |-> LongFrames,
      channels |-> << [i \in 1..LongFrames |-> x] >> ]

CodecBuffers ==
    { AudioBuffer(sr, nc, n, seed) :
        sr \in SampleRates, nc \in 1..MaxChannels,
        n \in 0..MaxFrames, seed \in CodecSeeds }
    \cup { SteadyBuffer(Scale), SteadyBuffer(-Scale) }

\* a one-channel buffer of n frames of silence
SilentBuffer(n) ==
    [ sampleRate |-> SAMPLE_RATE, numberOfChannels |-> 1, length |-> n,
      channels |-> << [i \in 1..n |-> 0] >> ]

\* silence of a few frames, and silence one frame short of, and exactly of,
\* the shortest window the pitch analysis accepts
SilentBuffers ==
    { SilentBuffer(n) : n \in {1, MaxFrames, FFT_SIZE \div 2 - 1, FFT_SIZE \div 2} }

CodecArguments ==
    { IdleCall("encode", b, p) :
        b \in CodecBuffers, p \in Range(ENCODE_PRESETS) \cup BadEncodePresets }
    \cup
    { IdleCall("decode", b, p) :
        b \in CodecBuffers, p \in Range(DECODE_PRESETS) \cup BadDecodePresets }
    \cup
    { IdleCall("encode", b, ENCODE_PRESETS[1]) : b \in SilentBuffers }

CodecInit ==
    /\ variant \in Variants
    /\ wavBuf = NoBuffer
    /\ blobs = << >>
    /\ audioContext = "null"
    /\ \E state \in {"suspended", "running"} :
         ui = [AppMounted EXCEPT !.context = state]
    /\ pitchRun = NoPitchRun
    /\ filterRun = NoFilterRun
    /\ analysisRun = NoAnalysisRun
    /\ \E a \in CodecArguments :
         calls = [k \in Slots |-> IF k = 1 THEN a
                                  ELSE IdleCall("decode", NoBuffer, DECODE_PRESETS[1])]

CodecNext ==
    \/ GetAudioContext
    \/ playBuffer
    \/ playBufferResumed
    \/ contextSuspended
    \/ Call(1)
    \/ Resume(1)

SpecCodec == CodecInit /\ [][CodecNext]_vars

---------------------------------------------------------------------------
(* Claims about bufferToWavBlob, checked under SpecWav *)

\* the int16 the WAV format holds for the sample x: full scale is 32767 up
\* and 32768 down, and the fraction is dropped
Int16Of(x) ==
    IF x >= Scale THEN 32767
    ELSE IF x <= -Scale THEN -32768
    ELSE IF x < 0 THEN Trunc(x * 32768, Scale)
    ELSE Trunc(x * 32767, Scale)

\* the samples the running version serialises, each with its byte offset
Serialised(v, buffer) ==
    IF v = "multi"
    THEN { [c |-> c, i |-> i, o |-> 44 + 2 * (i * buffer.numberOfChannels + c)] :
             c \in 0..(buffer.numberOfChannels - 1), i \in 0..(buffer.length - 1) }
    ELSE { [c |-> 0, i |-> i, o |-> 44 + 2 * i] : i \in 0..(buffer.length - 1) }

\* C1: every serialised output of a buffer with C channels and N frames is
\* exactly 44 + N*C*2 bytes long.
C1_WavLength ==
    \A k \in 1..Len(blobs) :
        Len(blobs[k]) = 44 + wavBuf.length * wavBuf.numberOfChannels * 2

\* C1, audioService.ts alone: the length is 44 + N*C*2.
C1_WavLength_multi == variant = "multi" => C1_WavLength

\* C2: the sample of frame i of channel c is the little-endian int16 at byte
\* offset 44 + 2*(i*C + c), for every i < N and c < C.
C2_Interleaved ==
    \A k \in 1..Len(blobs) :
        \A c \in 0..(wavBuf.numberOfChannels - 1), i \in 0..(wavBuf.length - 1) :
            LET o == 44 + 2 * (i * wavBuf.numberOfChannels + c)
            IN  /\ o + 2 <= Len(blobs[k])
                /\ getInt16(blobs[k], o) = Int16Of(getChannelData(wavBuf, c)[i + 1])

\* C2, audioService.ts alone: every channel is interleaved channel-minor.
C2_Interleaved_multi == variant = "multi" => C2_Interleaved

\* C3: the header agrees with the payload: format tag 1, bit depth 16, the
\* channel count of the buffer, block-align = channels*2, byte-rate =
\* sampleRate*channels*2, RIFF size = total length - 8, and data size =
\* frames * block-align = the number of bytes after the 44-byte header.
C3_HeaderConsistent ==
    \A k \in 1..Len(blobs) :
        LET b == blobs[k]
        IN  /\ Len(b) >= 44
            /\ SubSeq(b, 1, 4) = TagRIFF
            /\ SubSeq(b, 9, 12) = TagWAVE
            /\ getUint16(b, 20) = 1
            /\ getUint16(b, 34) = 16
            /\ getUint16(b, 22) = wavBuf.numberOfChannels
            /\ getUint16(b, 32) = wavBuf.numberOfChannels * 2
            /\ getUint32(b, 28) = wavBuf.sampleRate * wavBuf.numberOfChannels * 2
            /\ getUint32(b, 4) = Len(b) - 8
            /\ getUint32(b, 40) = wavBuf.length * getUint16(b, 32)
            /\ getUint32(b, 40) = Len(b) - 44

\* C3, audioService.ts alone: the header agrees with the payload.
C3_HeaderConsistent_multi == variant = "multi" => C3_HeaderConsistent

\* C4: every written value is the clamped sample scaled without int16
\* wrap-around: it keeps the sign of the sample and never exceeds the sample's
\* magnitude times 32768; +1.0 and above give 32767, -1.0 and below give
\* -32768, and 0 gives 0.
C4_Quantization ==
    \A k \in 1..Len(blobs) :
        \A w \in Serialised(variant, wavBuf) :
            LET x == getChannelData(wavBuf, w.c)[w.i + 1]
                q == getInt16(blobs[k], w.o)
            IN  /\ x >= Scale => q = 32767
                /\ x <= -Scale => q = -32768
                /\ x = 0 => q = 0
                /\ x > 0 => q >= 0
                /\ x < 0 => q <= 0
                /\ Abs(q) * Scale <= 32768 * Abs(x)

\* C4 witness: a blob was written from a buffer that holds a sample above
\* +1.0, one below -1.0 and one strictly inside (0, 1).
C4_Witness ==
    /\ blobs # << >>
    /\ \E w1, w2, w3 \in Serialised(variant, wavBuf) :
        /\ getChannelData(wavBuf, w1.c)[w1.i + 1] > Scale
        /\ getChannelData(wavBuf, w2.c)[w2.i + 1] < -Scale
        /\ getChannelData(wavBuf, w3.c)[w3.i + 1] \in 1..(Scale - 1)

\* C5: a call leaves the samples of the buffer unchanged, and a second call on
\* the same buffer returns the bytes the first returned.
C5_Pure ==
    [][ /\ wavBuf' = wavBuf
        /\ (blobs # << >> /\ blobs' # blobs) =>
               blobs'[Len(blobs')] = blobs[Len(blobs)] ]_vars

\* C5 witness: two calls were made on a two-channel buffer with frames.
C5_Witness ==
    /\ Len(blobs) >= 2
    /\ wavBuf.numberOfChannels = 2
    /\ wavBuf.length >= 2

---------------------------------------------------------------------------
(* Claims about encodeToBirdsong and decodeFromBirdsong, checked under
   SpecCodec *)

\* every sample of the buffer is in [-1, 1]
ValidBuffer(buffer) ==
    \A c \in 1..buffer.numberOfChannels : \A i \in 1..buffer.length :
        Abs(buffer.channels[c][i]) <= Scale

\* the preset passes the validation the specification asks for
ValidPreset(fn, preset) ==
    IF fn = "encode"
    THEN preset.inputLpfCutoff > 0 /\ 2 * preset.inputLpfCutoff < SAMPLE_RATE
    ELSE /\ preset.lpfCutoff > 0 /\ 2 * preset.lpfCutoff < SAMPLE_RATE
         /\ preset.gainMultiplier > 0
         /\ preset.filterStages > 0

\* every output sample the invocation has written so far
Written(call) ==
    { call.outputs[c][i] : c \in 1..Len(call.outputs), i \in 1..call.input.length }
    \cup Range(call.chan.out)

\* C6: for every input buffer with samples in [-1, 1] and every preset of
\* ENCODE_PRESETS, every encoded output sample lies strictly within (-1, 1).
C6_EncodeBounded ==
    \A k \in Slots :
        ( /\ calls[k].fn = "encode"
          /\ calls[k].runs > 0
          /\ calls[k].preset \in Range(ENCODE_PRESETS)
          /\ ValidBuffer(calls[k].input) )
        => \A y \in Written(calls[k]) : -Scale < y /\ y < Scale

\* C6 witness: an encode of a valid buffer with a table preset has returned,
\* and one of its output samples is above 0.9 in magnitude (the soft clip acts).
C6_Witness ==
    \E k \in Slots :
        /\ calls[k].fn = "encode"
        /\ calls[k].pc = "done"
        /\ calls[k].preset \in Range(ENCODE_PRESETS)
        /\ ValidBuffer(calls[k].input)
        /\ calls[k].input.length >= 2
        /\ \E y \in Written(calls[k]) : 10 * Abs(y) > 9 * Scale

\* C7: the buffer an invocation returns has the sample rate, the frame count
\* and the channel count of its input buffer.
C7_SameShape ==
    \A k \in Slots :
        calls[k].pc = "done" =>
            /\ calls[k].result.sampleRate = calls[k].input.sampleRate
            /\ calls[k].result.length = calls[k].input.length
            /\ calls[k].result.numberOfChannels = calls[k].input.numberOfChannels

\* C7, narrowed to what both versions do: the returned buffer has the frame
\* count of the input.
C7_SameLength ==
    \A k \in Slots :
        calls[k].pc = "done" => calls[k].result.length = calls[k].input.length

\* C8: an invocation with an invalid preset is rejected before any sample is
\* processed: it fails, and no output sample and no buffer is produced.
C8_BadPresetRejected ==
    \A k \in Slots :
        (calls[k].runs > 0 /\ ~ValidPreset(calls[k].fn, calls[k].preset)) =>
            /\ calls[k].pc = "failed"
            /\ calls[k].chan.steps = 0
            /\ Written(calls[k]) = {}
            /\ calls[k].result = NoBuffer

\* C9: an invocation on a buffer with zero frames completes without failure
\* and returns an empty buffer with the channel count of the input; no step
\* of the sample loop is executed.
C9_EmptyInput ==
    \A k \in Slots :
        (calls[k].runs > 0 /\ calls[k].input.length = 0 /\ calls[k].pc # "yield") =>
            /\ calls[k].pc = "done"
            /\ calls[k].result.numberOfChannels = calls[k].input.numberOfChannels
            /\ calls[k].result.length = 0
            /\ calls[k].chan.steps = 0

\* C9, the part the code keeps: on a buffer with zero frames no step of the
\* sample loop is executed.
C9_EmptyNoStep ==
    \A k \in Slots :
        (calls[k].runs > 0 /\ calls[k].input.length = 0) => calls[k].chan.steps = 0

\* the histories of every filter, of the DC blocker and the phase are zero
Fresh(snapshot) ==
    /\ \A j \in 1..Len(snapshot.filters) :
          /\ snapshot.filters[j].x1 = 0 /\ snapshot.filters[j].x2 = 0
          /\ snapshot.filters[j].y1 = 0 /\ snapshot.filters[j].y2 = 0
    /\ snapshot.dc = [x1 |-> 0, y1 |-> 0]
    /\ snapshot.phase = 0

\* C10: at the first sample of every channel of every invocation the filter
\* histories, the DC blocker history and the carrier phase are zero: nothing
\* an earlier channel or invocation wrote is read.
C10_FreshState ==
    \A k \in Slots :
        \A j \in 1..Len(calls[k].starts) : Fresh(calls[k].starts[j])

\* C10 witness: a second invocation has started a pass while the slot held
\* the filter state the invocation before it had left behind.
C10_Witness ==
    \E k \in Slots :
        /\ calls[k].runs = 2
        /\ calls[k].starts # << >>
        /\ calls[k].chan.filters # << >>
        /\ calls[k].chan.filters[1].y1 # 0
        /\ calls[k].chan.phase # 0 \/ calls[k].chan.dc.y1 # 0

---------------------------------------------------------------------------
(* The paired runs: two invocations on two-channel buffers that share a
   channel, their calls and their resumptions interleaved in every order *)

PairSeeds == {0, 1, 5}

\* one channel of MaxFrames samples of the test signal numbered seed
Track(seed) == [i \in 1..MaxFrames |-> TestSample(seed, 1, 0, i - 1)]

StereoBuffer(seed0, seed1) ==
    [ sampleRate |-> SAMPLE_RATE, numberOfChannels |-> 2, length |-> MaxFrames,
      channels |-> << Track(seed0), Track(seed1) >> ]

PairArguments ==
    { IdleCall("encode", StereoBuffer(s0, s1), p) :
        s0 \in PairSeeds, s1 \in PairSeeds,
        p \in {ENCODE_PRESETS[1], ENCODE_PRESETS[2]} }
    \cup
    { IdleCall("decode", StereoBuffer(s0, s1), p) :
        s0 \in PairSeeds, s1 \in PairSeeds,
        p \in {DECODE_PRESETS[1], DECODE_PRESETS[2]} }

\* the two buffers have the same samples in one channel at least
SharesChannel(a, b) ==
    \E c \in 0..1 : getChannelData(a, c) = getChannelData(b, c)

PairInit ==
    /\ variant \in Variants
    /\ wavBuf = NoBuffer
    /\ blobs = << >>
    /\ audioContext = "null"
    /\ ui = AppMounted
    /\ pitchRun = NoPitchRun
    /\ filterRun = NoFilterRun
    /\ analysisRun = NoAnalysisRun
    /\ \E a \in PairArguments, b \in PairArguments :
         /\ SharesChannel(a.input, b.input)
         /\ calls = [k \in Slots |-> IF k = 1 THEN a ELSE b]

PairNext == \E k \in Slots : Call(k) \/ Resume(k)

SpecPair == PairInit /\ [][PairNext]_vars

\* a slot no invocation is made in
NoCall == IdleCall("decode", NoBuffer, DECODE_PRESETS[1])

---------------------------------------------------------------------------
(* The pitch runs: extractPitch is called once on a window of a family.
   At the sample rate ProbeRate the lags searched are few, and a window one
   sample longer than the longest lag shows every case of the scan. *)

\* the length of the short windows: floor(ProbeRate / 70) + 1
ProbeLen == ProbeRate \div 70 + 1

\* the largest sample value below 0.02, and the smallest not below
QuietLevel == (2 * Scale) \div 100
AudibleLevel == QuietLevel + 1

\* the level b throughout, but a0 at index 0 and a1 at index q
ProbeWindow(b, q, a0, a1) ==
    [ i \in 1..ProbeLen |-> IF i = 1 THEN a0 ELSE IF i = q + 1 THEN a1 ELSE b ]

ProbeLevels == {0, QuietLevel, AudibleLevel, -(Scale \div 2)}

ProbeWindows ==
    { ProbeWindow(b, q, a0, a1) :
        b \in ProbeLevels, q \in 1..(ProbeLen - 1),
        a0 \in {0, Scale, 4 * Scale}, a1 \in {0, Scale, -Scale} }

\* a window of FFT_SIZE/2 samples at the service's rate: full scale for the
\* shortest lag's length, then -0.1 for the longest lag's length, then silence
ClickWindow ==
    [ i \in 1..(FFT_SIZE \div 2) |->
        IF i <= SAMPLE_RATE \div 400 THEN Scale
        ELSE IF i <= SAMPLE_RATE \div 400 + SAMPLE_RATE \div 70 THEN -(Scale \div 10)
        ELSE 0 ]

\* a window of FFT_SIZE/2 samples that holds half scale throughout
HumWindow == [i \in 1..(FFT_SIZE \div 2) |-> Scale \div 2]

\* windows of low-level noise above the gate: the sums of their lags lie
\* within a few 1/Scale of each other, so the lag selected depends on the
\* fractions of the products
NoiseWindows ==
    { << 146, -288, 234, 299, 158, -123, -200, -206, -182, -90, 238, -88 >>,
      << -39, -233, -203, -222, -66, 219, -175, -33, 227, -106, -235, -298 >>,
      << 53, -118, -136, 131, 123, -9, 128, -49, 137, 218, 191, -172 >>,
      [i \in 1..ProbeLen |-> AudibleLevel] }

PitchArguments ==
    { [NoPitchRun EXCEPT !.buffer = w, !.sampleRate = sr] :
        w \in ProbeWindows, sr \in {ProbeRate, SAMPLE_RATE} }
    \cup { [NoPitchRun EXCEPT !.buffer = w, !.sampleRate = ProbeRate] :
             w \in NoiseWindows }
    \cup { [NoPitchRun EXCEPT !.buffer = w, !.sampleRate = SAMPLE_RATE] :
             w \in {ClickWindow, HumWindow} }

PitchInit ==
    /\ variant \in Variants
    /\ wavBuf = NoBuffer
    /\ blobs = << >>
    /\ audioContext = "null"
    /\ ui = AppMounted
    /\ calls = [k \in Slots |-> NoCall]
    /\ pitchRun \in PitchArguments
    /\ filterRun = NoFilterRun
    /\ analysisRun = NoAnalysisRun

PitchNext == ExtractPitch

SpecPitch == PitchInit /\ [][PitchNext]_vars

---------------------------------------------------------------------------
(* The filter runs: a low-pass filter is built at a cutoff and fed a
   constant level up to MaxFeed times *)

\* the cutoffs of the presets, and cutoffs low and high in (0, Nyquist)
FilterCutoffs ==
    { ENCODE_PRESETS[k].inputLpfCutoff : k \in 1..Len(ENCODE_PRESETS) }
    \cup { DECODE_PRESETS[k].lpfCutoff : k \in 1..Len(DECODE_PRESETS) }
    \cup { SAMPLE_RATE \div 100, SAMPLE_RATE \div 8, SAMPLE_RATE \div 4,
           SAMPLE_RATE \div 2 - SAMPLE_RATE \div 20 }

FilterLevels == {Scale, -Scale, Scale \div 2}

FilterInit ==
    /\ variant \in Variants
    /\ wavBuf = NoBuffer
    /\ blobs = << >>
    /\ audioContext = "null"
    /\ ui = AppMounted
    /\ calls = [k \in Slots |-> NoCall]
    /\ pitchRun = NoPitchRun
    /\ analysisRun = NoAnalysisRun
    /\ \E c \in FilterCutoffs, l \in FilterLevels :
         filterRun = [NoFilterRun EXCEPT !.cutoff = c, !.level = l]

FilterNext == FilterNew \/ FilterProcess

SpecFilter == FilterInit /\ [][FilterNext]_vars

---------------------------------------------------------------------------
(* The analysis runs: the pitch analysis loop of an encode of
   FFT_SIZE/2 + (MaxSteps - 1) * 512 samples, with every outcome of
   extractPitch at every step *)

\* what extractPitch returns at 44100 Hz: 0, or 44100 / lag for the
\* shortest lag, a middle lag and the longest lag of the scan
FoundPitches ==
    { 0, Quot(SAMPLE_RATE, SAMPLE_RATE \div 400), Quot(SAMPLE_RATE, 300),
      Quot(SAMPLE_RATE, SAMPLE_RATE \div 70 - 1) }

AnalysisInit ==
    /\ variant \in Variants
    /\ wavBuf = NoBuffer
    /\ blobs = << >>
    /\ audioContext = "null"
    /\ ui = AppMounted
    /\ calls = [k \in Slots |-> NoCall]
    /\ pitchRun = NoPitchRun
    /\ filterRun = NoFilterRun
    /\ analysisRun = NewAnalysisRun(FFT_SIZE \div 2 + (MaxSteps - 1) * pitchAnalysisStep)

AnalysisNext == \E found \in FoundPitches : AnalyseFrame(found)

SpecAnalysis == AnalysisInit /\ [][AnalysisNext]_vars

---------------------------------------------------------------------------
(* The preset selector runs: the arrows are pressed up to MaxPresses times,
   from every tab and every pair of preset indexes *)

PresetInit ==
    /\ variant \in Variants
    /\ wavBuf = NoBuffer
    /\ blobs = << >>
    /\ audioContext = "null"
    /\ calls = [k \in Slots |-> NoCall]
    /\ pitchRun = NoPitchRun
    /\ filterRun = NoFilterRun
    /\ analysisRun = NoAnalysisRun
    /\ \E t \in Tabs, e \in 0..(Len(ENCODE_PRESETS) - 1),
          d \in 0..(Len(DECODE_PRESETS) - 1) :
         ui = [AppMounted EXCEPT
                 !.tab = t,
                 !.inputType = IF t = "decode" THEN "file" ELSE "mic",
                 !.statusText = IF t = "decode" THEN "LOAD ARTIFACT"
                                                ELSE "READY",
                 !.encodePresetIndex = e,
                 !.decodePresetIndex = d]

PresetNext == cyclePreset(1) \/ cyclePreset(-1)

SpecPreset == PresetInit /\ [][PresetNext]_vars

---------------------------------------------------------------------------
(* Claims about the preset selector, checked under SpecPreset *)

\* the number of presets in the table of the active tab
ActiveLen(u) ==
    IF u.tab = "encode" THEN Len(ENCODE_PRESETS) ELSE Len(DECODE_PRESETS)

\* the last n calls of cyclePreset all had the direction d
LastPresses(u, n, d) ==
    /\ Len(u.trail) >= n
    /\ \A j \in (Len(u.trail) - n + 1)..Len(u.trail) : u.trail[j].direction = d

\* C14: after len(presets) consecutive calls of cyclePreset in one direction
\* (+1 or -1) the preset index of the active tab is what it was before the
\* first of them, for the encode table and for the decode table.
C14_CycleReturns ==
    \A d \in {1, -1} :
        LastPresses(ui, ActiveLen(ui), d)
        => ActivePresetIndex(ui)
             = ui.trail[Len(ui.trail) - ActiveLen(ui) + 1].before

\* C14 witness: a full forward cycle on the decode tab that started from the
\* last preset, so the index wrapped on its first step
C14_Witness ==
    /\ ui.tab = "decode"
    /\ LastPresses(ui, Len(DECODE_PRESETS), 1)
    /\ ui.trail[Len(ui.trail) - Len(DECODE_PRESETS) + 1].before
         = Len(DECODE_PRESETS) - 1
    /\ ui.decodePresetIndex = Len(DECODE_PRESETS) - 1

---------------------------------------------------------------------------
(* Claims about channels, yields and the order of the samples, checked
   under SpecPair *)

\* the invocation has returned a buffer
Done(call) == call.pc = "done"

\* C11: two returned invocations of the same function with the same preset
\* and the same pitch curve, whose inputs have the same samples in channel c,
\* have the same samples in channel c of their outputs, whatever the other
\* channel of the inputs holds (encodeToBirdsong, channel 1 included, and
\* decodeFromBirdsong, every channel).
C11_ChannelIndependent ==
    \A k1 \in Slots, k2 \in Slots :
        ( /\ Done(calls[k1]) /\ Done(calls[k2])
          /\ calls[k1].fn = calls[k2].fn
          /\ calls[k1].preset = calls[k2].preset
          /\ calls[k1].pitchCurve = calls[k2].pitchCurve )
        => \A c \in 0..(calls[k1].result.numberOfChannels - 1) :
              getChannelData(calls[k1].input, c) = getChannelData(calls[k2].input, c)
              => getChannelData(calls[k1].result, c) = getChannelData(calls[k2].result, c)

\* C11 witness: two encodes with the same preset have returned two-channel
\* buffers; their inputs differ in channel 0 and agree in channel 1, and
\* their outputs differ in channel 0
C11_Witness ==
    /\ Done(calls[1]) /\ Done(calls[2])
    /\ calls[1].fn = "encode" /\ calls[2].fn = "encode"
    /\ calls[1].preset = calls[2].preset
    /\ calls[1].pitchCurve = calls[2].pitchCurve
    /\ calls[1].result.numberOfChannels = 2
    /\ getChannelData(calls[1].input, 0) # getChannelData(calls[2].input, 0)
    /\ getChannelData(calls[1].input, 1) = getChannelData(calls[2].input, 1)
    /\ getChannelData(calls[1].result, 0) # getChannelData(calls[2].result, 0)

\* the output of one channel computed in one piece, with no await
DirectChannel(call, data, pitchCurve) ==
    SampleLoop(call.fn, ChannelStart(call), data, pitchCurve, call.preset,
               0, Len(data)).out

\* the pitch curve of an input, as the version v computes it
DirectCurve(v, call) ==
    IF call.fn # "encode" THEN << >>
    ELSE IF v = "multi" THEN PitchCurve(Downmix(call.input),
                                            call.input.numberOfChannels * Scale,
                                            call.input.length)
    ELSE PitchCurve(getChannelData(call.input, 0), Scale,
                                            call.input.length)

\* the buffer the version v returns for the arguments of the call, computed
\* from the input buffer and the preset alone
DirectResult(v, call) ==
    Returned(IF v = "multi" THEN call.input.numberOfChannels ELSE 1,
             call.input.length,
             [ c \in 1..(IF v = "multi" THEN call.input.numberOfChannels ELSE 1) |->
                 DirectChannel(call, call.input.channels[c], DirectCurve(v, call)) ])

\* C12: the buffer an invocation returns is the function DirectResult of its
\* input buffer and its preset: the awaits, the invocations that run between
\* them and the invocations made before do not change it.
C12_Deterministic ==
    \A k \in Slots : Done(calls[k]) => calls[k].result = DirectResult(variant, calls[k])

\* C12 witness: slot 1 has returned from its second invocation while the
\* invocation of slot 2 is suspended at an await
C12_Witness ==
    /\ Done(calls[1]) /\ calls[1].runs >= 2
    /\ calls[2].pc = "yield" /\ calls[2].runs >= 1
    /\ calls[1].input.length >= 2

\* the number of samples of the current channel the loop has gone through
\* when the invocation is at an await or has returned
Processed(v, call) ==
    IF v = "mono" /\ call.pc = "yield" THEN call.i + 1 ELSE call.input.length

\* the channel the loop is reading
CurrentData(v, call) ==
    getChannelData(call.input, IF v = "multi" THEN call.c ELSE 0)

\* what the first filter of the chain is fed for the sample x
FirstInput(call, x) == IF call.fn = "encode" THEN x ELSE Abs(x)

\* after n samples in ascending order, each filter called once per sample:
\* the first filter holds the last two samples, every later filter holds
\* the last two outputs of the filter before it, and the DC blocker of the
\* decoder holds the last output of the last filter
InOrder(call, st, data, n) ==
    /\ st.steps = n
    /\ Len(st.out) = n
    /\ n >= 1 => st.filters[1].x1 = FirstInput(call, data[n])
    /\ n >= 2 => st.filters[1].x2 = FirstInput(call, data[n - 1])
    /\ \A j \in 2..Len(st.filters) :
          /\ st.filters[j].x1 = st.filters[j - 1].y1
          /\ st.filters[j].x2 = st.filters[j - 1].y2
    /\ (call.fn = "decode" /\ n >= 1)
          => st.dc.x1 = st.filters[Len(st.filters)].y1

\* C13: within one channel of one call the samples are processed in
\* ascending index order and every filter's process() is called exactly once
\* per sample, also across the awaits.
C13_InOrderOnce ==
    \A k \in Slots :
        calls[k].pc \in {"yield", "done"}
        => InOrder(calls[k], calls[k].chan, CurrentData(variant, calls[k]),
                   Processed(variant, calls[k]))

\* C13 witness: a decode of part_003 has returned after an await taken in the
\* middle of the channel, with every sample processed
C13_Witness ==
    \E k \in Slots :
        /\ variant = "mono"
        /\ Done(calls[k])
        /\ calls[k].fn = "decode"
        /\ calls[k].input.length >= 2
        /\ calls[k].chan.steps = calls[k].input.length

---------------------------------------------------------------------------
(* Claims about the decoder's signal path, checked under SpecCodec *)

\* |x| of every sample
Rectified(x) == [i \in 1..Len(x) |-> Abs(x[i])]

\* the whole signal x through one low-pass section: acc = [f, y], the
\* section's state and the output so far
RECURSIVE LowPassSignal(_, _, _)
LowPassSignal(acc, x, i) ==
    IF i > Len(x) THEN acc.y
    ELSE LowPassSignal([ f |-> LowPassFilter_process(acc.f, x[i]),
                         y |-> Append(acc.y, LowPassFilter_y(acc.f, x[i])) ],
                       x, i + 1)

\* the whole signal through k sections at the same cutoff, one after another
RECURSIVE Cascade(_, _, _)
Cascade(x, k, cutoff) ==
    IF k <= 0 THEN x
    ELSE LowPassSignal([f |-> LowPassFilter(cutoff, SAMPLE_RATE), y |-> << >>],
                       Cascade(x, k - 1, cutoff), 1)

\* the whole signal through the DC blocker: acc = [d, y]
RECURSIVE DCSignal(_, _, _)
DCSignal(acc, x, i) ==
    IF i > Len(x) THEN acc.y
    ELSE DCSignal([ d |-> DCBlocker_process(acc.d, x[i]),
                    y |-> Append(acc.y, DCBlocker_y(acc.d, x[i])) ],
                  x, i + 1)

\* gain times every sample, nothing else
Gained(x, gain) == [i \in 1..Len(x) |-> x[i] * gain]

\* gainMultiplier * dcBlock(LPF_k(... LPF_1(|x|) ...)), stage by stage
DecodeFormula(x, preset) ==
    Gained(DCSignal([d |-> DCBlocker, y |-> << >>],
                    Cascade(Rectified(x), preset.filterStages, preset.lpfCutoff), 1),
           preset.gainMultiplier)

\* C16: every channel decodeFromBirdsong returns is gainMultiplier times the
\* DC-blocked output of exactly filterStages low-pass sections at lpfCutoff
\* applied to the rectified input, in that order, with no clamp on the result.
C16_DecodeFormula ==
    \A k \in Slots :
        (Done(calls[k]) /\ calls[k].fn = "decode")
        => \A c \in 0..(calls[k].result.numberOfChannels - 1) :
              getChannelData(calls[k].result, c)
                = DecodeFormula(getChannelData(calls[k].input, c), calls[k].preset)

\* C16 witness: a decode with a preset of the table and two sections or more
\* has returned a sample beyond full scale
C16_Witness ==
    \E k \in Slots :
        /\ Done(calls[k]) /\ calls[k].fn = "decode"
        /\ calls[k].preset \in Range(DECODE_PRESETS)
        /\ calls[k].preset.filterStages >= 2
        /\ \E y \in Range(getChannelData(calls[k].result, 0)) : Abs(y) > Scale

---------------------------------------------------------------------------
(* Claims about the pitch curve, checked under SpecCodec *)

\* every sample of every channel is 0
AllZero(buffer) ==
    \A c \in 1..buffer.numberOfChannels : \A i \in 1..buffer.length :
        buffer.channels[c][i] = 0

\* C15: for an all-zero input of any length the pitch curve of
\* encodeToBirdsong, and with it the carrier frequency, has the same value at
\* every sample index.
C15_SilenceFlat ==
    \A k \in Slots :
        (calls[k].fn = "encode" /\ calls[k].runs > 0 /\ AllZero(calls[k].input))
        => \A i \in 1..Len(calls[k].pitchCurve), j \in 1..Len(calls[k].pitchCurve) :
              calls[k].pitchCurve[i] = calls[k].pitchCurve[j]

\* the part of C15 the code keeps: on silence every step the analysis goes
\* through holds the starting pitch of 120 Hz, and the others keep 0
C15_SilenceHeld ==
    \A k \in Slots :
        (calls[k].fn = "encode" /\ calls[k].runs > 0 /\ AllZero(calls[k].input))
        => \A i \in 1..Len(calls[k].pitchCurve) :
              calls[k].pitchCurve[i] \in {0, 120 * Scale}

\* the samples the pitch analysis of the version v reads
PitchInput(v, buffer) ==
    IF v = "multi" THEN Downmix(buffer) ELSE getChannelData(buffer, 0)

\* the unit of those samples
PitchUnit(v, buffer) ==
    IF v = "multi" THEN buffer.numberOfChannels * Scale ELSE Scale

\* the analysis window of the step s: FFT_SIZE samples from s * 512, or what
\* is left of the signal
StepWindow(data, s) ==
    SubSeq(data, s * pitchAnalysisStep + 1,
           Min(s * pitchAnalysisStep + FFT_SIZE, Len(data)))

\* lastPitch after a step that found the pitch `found`
NextLast(lastPitch, found) ==
    IF found = 0 THEN lastPitch ELSE SmoothPitch(lastPitch, found)

\* the pitch of the step s when every step from 0 on is analysed; t is the
\* step reached and lastPitch the pitch kept before it
RECURSIVE StepPitch(_, _, _, _, _)
StepPitch(data, unit, s, t, lastPitch) ==
    IF t = s
    THEN SmoothPitch(lastPitch,
                     extractPitch(StepWindow(data, t), SAMPLE_RATE, unit))
    ELSE StepPitch(data, unit, s, t + 1,
                   NextLast(lastPitch,
                            extractPitch(StepWindow(data, t), SAMPLE_RATE, unit)))

\* C20: once the pitch curve is built, pitchCurve[i] is, for every index
\* i < totalLength, the smoothed or held pitch of the analysis step
\* floor(i / 512): constant within the step, and no index left unassigned.
C20_ZeroOrderHold ==
    \A k \in Slots :
        (calls[k].fn = "encode" /\ calls[k].runs > 0)
        => \A i \in 1..Len(calls[k].pitchCurve) :
              calls[k].pitchCurve[i]
                = StepPitch(PitchInput(variant, calls[k].input),
                            PitchUnit(variant, calls[k].input),
                            (i - 1) \div pitchAnalysisStep, 0, 120 * Scale)

\* the part of C20 the code keeps: the curve is constant within every step
C20_ConstantInStep ==
    \A k \in Slots :
        (calls[k].fn = "encode" /\ calls[k].runs > 0)
        => \A i \in 1..Len(calls[k].pitchCurve), j \in 1..Len(calls[k].pitchCurve) :
              ((i - 1) \div pitchAnalysisStep = (j - 1) \div pitchAnalysisStep)
              => calls[k].pitchCurve[i] = calls[k].pitchCurve[j]

---------------------------------------------------------------------------
(* Claims about extractPitch, checked under SpecPitch *)

\* the call of extractPitch has returned
Extracted == pitchRun.pc = "done"

\* the shortest and the longest period of the search range
minPeriod == pitchRun.sampleRate \div 400
maxPeriod == pitchRun.sampleRate \div 70

\* the correlation sum of the window at the lag
LagSum(lag) == Correlation(pitchRun.buffer, lag, 0)

\* C17: extractPitch returns 0 exactly when the RMS of the window is below
\* 0.02; for every window with RMS >= 0.02 it returns sampleRate / lag for a
\* lag of the search range.
C17_ZeroOnlyOnSilence ==
    Extracted
    => /\ (pitchRun.pitch = 0) <=> SilenceGate(pitchRun.buffer, Scale)
       /\ ~SilenceGate(pitchRun.buffer, Scale)
             => \E lag \in minPeriod..maxPeriod :
                   pitchRun.pitch = Quot(pitchRun.sampleRate, lag)

\* the part of C17 the code keeps: a window below the gate gives 0
C17_GateGivesZero ==
    (Extracted /\ SilenceGate(pitchRun.buffer, Scale)) => pitchRun.pitch = 0

\* C18: the lag floor(sampleRate / 70) is searched: when its correlation sum
\* is above the sum of every shorter lag of the range, it is the lag selected.
C18_LongestLagSearched ==
    ( /\ Extracted
      /\ ~SilenceGate(pitchRun.buffer, Scale)
      /\ ExactAbove(LagSum(maxPeriod), ExactMinusOne(Scale))
      /\ \A lag \in minPeriod..(maxPeriod - 1) :
            ExactAbove(LagSum(maxPeriod), LagSum(lag)) )
    => pitchRun.pitch = Quot(pitchRun.sampleRate, maxPeriod)

\* the lag is the shortest of the lags lo..hi with the largest correlation sum
ShortestOfBest(lag, lo, hi) ==
    /\ lag \in lo..hi
    /\ \A other \in lo..hi : ~ExactAbove(LagSum(other), LagSum(lag))
    /\ \A other \in lo..(lag - 1) : ExactAbove(LagSum(lag), LagSum(other))

\* C19: for a window above the gate extractPitch returns sampleRate / lag for
\* the lag with the largest correlation sum (over every other index i with
\* i + lag inside the window), the shortest one when several lags share it.
C19_ShortestBestLag ==
    (Extracted /\ ~SilenceGate(pitchRun.buffer, Scale))
    => \E lag \in minPeriod..(maxPeriod - 1) :
          /\ ShortestOfBest(lag, minPeriod, maxPeriod - 1)
          /\ pitchRun.pitch = Quot(pitchRun.sampleRate, lag)

\* the part of C19 the code keeps: when some lag of the scan has a sum above
\* -1, the shortest of the best lags is selected
C19_ShortestBestAboveFloor ==
    ( /\ Extracted
      /\ ~SilenceGate(pitchRun.buffer, Scale)
      /\ \E lag \in minPeriod..(maxPeriod - 1) :
            ExactAbove(LagSum(lag), ExactMinusOne(Scale)) )
    => \E lag \in minPeriod..(maxPeriod - 1) :
          /\ ShortestOfBest(lag, minPeriod, maxPeriod - 1)
          /\ pitchRun.pitch = Quot(pitchRun.sampleRate, lag)

---------------------------------------------------------------------------
(* Claims about the pitch smoothing, checked under SpecAnalysis *)

\* `previous` after the first n steps of the outcomes founds, by the rule of
\* the claim: 120 at the start, 0.8 * previous + 0.2 * new after a voiced
\* step, unchanged after a silent one
RECURSIVE Previous(_, _)
Previous(founds, n) ==
    IF n = 0 THEN 120 * Scale
    ELSE IF founds[n] = 0 THEN Previous(founds, n - 1)
    ELSE RoundDiv(8 * Previous(founds, n - 1) + 2 * founds[n], 10)

\* the pitch of the step n (from 1): previous on a silent step
StepValue(founds, n) ==
    IF founds[n] = 0 THEN Previous(founds, n - 1) ELSE Previous(founds, n)

\* C21: from previous = 120, a voiced step sets pitch = 0.8 * previous +
\* 0.2 * new and makes it the new previous; a silent step uses pitch =
\* previous and leaves previous as it is, for every sequence of voiced and
\* silent steps.
C21_Smoothing ==
    /\ analysisRun.st.lastPitch = Previous(analysisRun.founds, Len(analysisRun.founds))
    /\ \A n \in 1..Len(analysisRun.founds) :
          analysisRun.st.curve[(n - 1) * pitchAnalysisStep + 1]
            = StepValue(analysisRun.founds, n)

\* C21 witness: a voiced step, then a silent step, then a voiced step with
\* another pitch have been analysed
C21_Witness ==
    /\ Len(analysisRun.founds) >= 3
    /\ analysisRun.founds[1] # 0
    /\ analysisRun.founds[2] = 0
    /\ analysisRun.founds[3] # 0
    /\ analysisRun.founds[3] # analysisRun.founds[1]

---------------------------------------------------------------------------
(* Claims about the low-pass filter, checked under SpecFilter *)

\* the filter with the level c in all of its histories
Settled(f, c) == [f EXCEPT !.x1 = c, !.x2 = c, !.y1 = c, !.y2 = c]

\* C22: the coefficients of a LowPassFilter satisfy a0 + a1 + a2 =
\* 1 + b1 + b2 (to the resolution of the numbers), so a filter that holds the
\* constant c in its histories answers c to the input c: unit gain at DC.
C22_UnitDcGain ==
    filterRun.pc = "built"
    => /\ Abs((filterRun.f.a0 + filterRun.f.a1 + filterRun.f.a2)
               - (Scale + filterRun.f.b1 + filterRun.f.b2)) <= CoefficientSlack
       /\ Abs(LowPassFilter_y(Settled(filterRun.f, filterRun.level), filterRun.level)
               - filterRun.level) <= CoefficientSlack

\* C22 witness: a filter at a quarter of the sample rate, fed full scale
\* MaxFeed times from rest, has brought its output to full scale
C22_Witness ==
    /\ filterRun.pc = "built"
    /\ filterRun.fed = MaxFeed
    /\ filterRun.level = Scale
    /\ filterRun.cutoff = SAMPLE_RATE \div 4
    /\ filterRun.y = filterRun.level

---------------------------------------------------------------------------
(* Claims about the range of extractPitch, checked under SpecPitch *)

\* C23: at the sample rate 44100 every non-zero value extractPitch returns
\* is a pitch of the voice range: 70 <= v <= 400.
C23_VoiceRange ==
    (Extracted /\ pitchRun.sampleRate = SAMPLE_RATE /\ pitchRun.pitch # 0)
    => (70 * Scale <= pitchRun.pitch /\ pitchRun.pitch <= 400 * Scale)

\* the part of C23 the code keeps: the value is sampleRate / lag for a lag
\* the scan tries, so between 44100 / 629 and 44100 / 110
C23_ScanRange ==
    (Extracted /\ pitchRun.sampleRate = SAMPLE_RATE /\ pitchRun.pitch # 0)
    => /\ Quot(SAMPLE_RATE, SAMPLE_RATE \div 70 - 1) <= pitchRun.pitch
       /\ pitchRun.pitch <= Quot(SAMPLE_RATE, SAMPLE_RATE \div 400)

---------------------------------------------------------------------------
(* App: the handlers.  A handler that awaits is split at its awaits: the
   action named after the handler runs it up to the first await and leaves a
   task, and one action per await runs the continuation. *)

\* an invocation that waits at an await: where it waits (pc: mount for the
\* getHistoryItems() of the mount effect; getUserMedia, onstop and upload
\* wait for the browser to open the microphone or to decode the audio; stop
\* is the onstop handler before its stop event; delay for the 100 ms timer
\* of processAudio / runProcessing, codec for encodeToBirdsong /
\* decodeFromBirdsong, save for saveHistoryItem; logRead and logPlay for the
\* blob.arrayBuffer() and the decodeAudioData of handleHistoryPlay; delete
\* and clear for deleteHistoryItem and clearAllHistory; resume and play for
\* the ctx.resume() of startRecording and of playAudio), the buffer it
\* holds, and the tab and the preset index of that tab in the render its
\* closure was made in.  handoff marks the invocation that handleModeChange
\* starts; stale records that reset() has run since the processing started;
\* item is the id deleteLogItem was called with.
Task(id, pc, buffer, mode, preset) ==
    [ id |-> id, pc |-> pc, buffer |-> buffer, mode |-> mode,
      preset |-> preset, handoff |-> FALSE, stale |-> FALSE, item |-> 0 ]

\* the invocation t now waits (again)
Await(u, t) ==
    [ u EXCEPT !.tasks = {x \in @ : x.id # t.id} \cup {t},
               !.started = Max(@, t.id) ]

\* encodePresetIndex or decodePresetIndex, as the mode says
PresetIndexOf(u, mode) ==
    IF mode = "encode" THEN u.encodePresetIndex ELSE u.decodePresetIndex

\* what encodeToBirdsong / decodeFromBirdsong returns to the invocation t
Result(t) ==
    IF t.mode = "encode" THEN Encoded(t.buffer, t.preset)
                         ELSE Decoded(t.buffer, t.preset)

\* stopAudio: the node of sourceNodeRef, if there is one, is stopped and the
\* ref cleared, and isPlaying is reset.  A stopped node still fires its
\* ended event: it stays counted in nodes.
stopAudio(u) == [u EXCEPT !.sourceNode = "none", !.isPlaying = FALSE]

\* playAudio after its await: a new node is put in sourceNodeRef and
\* started, and isPlaying is set
startSource(u) ==
    [u EXCEPT !.sourceNode = "node", !.nodes = @ + 1, !.isPlaying = TRUE]

\* playAudio(buffer), the invocation t: stopAudio(), then the node is started
\* at once when the context runs; when it is suspended the invocation waits
\* for ctx.resume() first
playAudio(u, t) ==
    IF u.context = "suspended"
    THEN Await(stopAudio(u), [t EXCEPT !.pc = "play"])
    ELSE [startSource(stopAudio(u)) EXCEPT !.started = Max(@, t.id)]

\* reset()
reset(u) ==
    [ stopAudio(u) EXCEPT
        !.sourceAudio = Null,
        !.processedAudio = Null,
        !.appState = "idle",
        !.statusText = "READY",
        !.tasks = { IF t.pc \in {"delay", "codec"}
                    THEN [t EXCEPT !.stale = TRUE] ELSE t : t \in @ } ]

\* the mutant: the override of the mode is ignored
currentModeTab(modeOverride, tab) == tab

\* const currentMode = modeOverride || tab
currentMode(modeOverride, tab) ==
    IF modeOverride # "" THEN modeOverride ELSE tab

\* processAudio / runProcessing up to the await of the timer, for the
\* invocation id on a buffer
runProcessing(u, id, buffer, mode, preset, handoff) ==
    Await([ u EXCEPT !.appState = "processing",
                     !.statusText = IF mode = "encode" THEN "ENCRYPTING..."
                                                       ELSE "DECODING..." ],
          [ Task(id, "delay", buffer, mode, preset) EXCEPT
              !.handoff = handoff ])

\* the catch block of processAudio / runProcessing
processFailed(u, t) ==
    [ u EXCEPT !.appState = "recorded",
               !.statusText = "PROCESS FAILED",
               !.tasks = @ \ {t} ]

\* the statements after the codec returned: the result is installed
processInstalled(u, t) ==
    [ u EXCEPT !.processedAudio = Result(t),
               !.appState = "completed",
               !.statusText = IF t.mode = "encode" THEN "ENCRYPTION COMPLETE"
                                                   ELSE "DECRYPTION COMPLETE" ]

\* the condition of the special workflow of handleModeChange (part_001)
HandOff(u, newTab) ==
    /\ u.component = "part_001"
    /\ u.tab = "encode"
    /\ newTab = "decode"
    /\ u.appState = "completed"
    /\ u.processedAudio # Null

\* the state after handleModeChange(newTab)
handleModeChangeState(u, newTab) ==
    IF HandOff(u, newTab)
    THEN runProcessing([ stopAudio(u) EXCEPT !.tab = "decode",
                                             !.sourceAudio = u.processedAudio,
                                             !.processedAudio = Null,
                                             !.inputType = "file" ],
                       u.started + 1, u.processedAudio,
                       currentMode("decode", u.tab),
                       PresetIndexOf(u, currentMode("decode", u.tab)), TRUE)
    ELSE [ reset(u) EXCEPT
             !.tab = newTab,
             !.inputType = IF newTab = "decode" THEN "file" ELSE "mic",
             !.statusText = IF newTab = "decode" THEN "LOAD ARTIFACT"
                                                 ELSE "READY" ]

\* one of the two buttons of the mode switcher is pressed
handleModeChange(newTab) ==
    /\ PanelOpen(ui)
    /\ HandOff(ui, newTab) => ui.started < MaxAppTasks
    /\ ui' = handleModeChangeState(ui, newTab)
    /\ UNCHANGED <<variant, wavBuf, blobs, calls, audioContext, pitchRun,
                 filterRun, analysisRun>>

\* one of the two buttons of the input switcher is pressed
setInputType(type) ==
    /\ PanelOpen(ui)
    /\ ui.tab = "encode"
    /\ ui.appState = "idle"
    /\ ui' = [ui EXCEPT !.inputType = type]
    /\ UNCHANGED <<variant, wavBuf, blobs, calls, audioContext, pitchRun,
                 filterRun, analysisRun>>

\* the stored history of earlier sessions that getHistoryItems() finds: none
\* (also what it returns when the database cannot be opened), or one item
OldItem == [id |-> 0, type |-> "encode", blob |-> Encoded(Source(0), 0)]

StoredLogs == { << >>, << OldItem >> }

\* getHistoryItems() of the mount effect settles: setHistoryItems(items)
\* replaces the list, or the request failed, the promise is rejected and the
\* list stays.  Its read transaction is queued before every write of the
\* session, so it finds the items of earlier sessions only.
historyLoaded(t, loaded, items) ==
    /\ t \in ui.tasks
    /\ t.pc = "mount"
    /\ ui' = [ ui EXCEPT !.historyItems = IF loaded THEN items ELSE @,
                         !.tasks = @ \ {t} ]
    /\ UNCHANGED <<variant, wavBuf, blobs, calls, audioContext, pitchRun,
                 filterRun, analysisRun>>

\* the main button is held down: startRecording up to its first await,
\* ctx.resume() when the context is suspended, getUserMedia when it runs
startRecording ==
    /\ PanelOpen(ui)
    /\ ui.inputType = "mic"
    /\ ui.appState = "idle"
    /\ ui.started < MaxAppTasks
    /\ ui' = Await(ui, Task(ui.started + 1,
                            IF ui.context = "suspended" THEN "resume"
                                                        ELSE "getUserMedia",
                            Null, ui.tab, ActivePresetIndex(ui)))
    /\ audioContext' = "ctx"
    /\ UNCHANGED <<variant, wavBuf, blobs, calls, pitchRun, filterRun,
                 analysisRun>>

\* ctx.resume() settles: the context runs and the promise of every
\* invocation that waits for it is resolved; startRecording goes on to
\* getUserMedia, every playAudio starts its node
contextResumed ==
    /\ ui.context = "suspended"
    /\ \E t \in ui.tasks : t.pc \in {"resume", "play"}
    /\ ui' = [ (IF \E t \in ui.tasks : t.pc = "play"
                THEN [ startSource(ui) EXCEPT
                         !.nodes = ui.nodes
                             + Cardinality({t \in ui.tasks : t.pc = "play"}) ]
                ELSE ui)
                EXCEPT !.context = "running",
                       !.tasks = { IF t.pc = "resume"
                                   THEN [t EXCEPT !.pc = "getUserMedia"] ELSE t :
                                   t \in { x \in @ : x.pc # "play" } } ]
    /\ UNCHANGED <<variant, wavBuf, blobs, calls, audioContext, pitchRun,
                 filterRun, analysisRun>>

\* getUserMedia settles: the recorder starts, or the catch block runs
getUserMediaSettled(t, granted) ==
    /\ t \in ui.tasks
    /\ t.pc = "getUserMedia"
    /\ ui' = IF granted
             THEN [ ui EXCEPT !.recorder = [ state |-> "recording",
                                             mode |-> t.mode,
                                             preset |-> t.preset ],
                              !.appState = "recording",
                              !.statusText = "RECORDING...",
                              !.tasks = @ \ {t} ]
             ELSE [ ui EXCEPT !.statusText = "MIC ERROR",
                              !.tasks = @ \ {t} ]
    /\ UNCHANGED <<variant, wavBuf, blobs, calls, audioContext, pitchRun,
                 filterRun, analysisRun>>

\* the main button is released: stopRecording stops the recorder, which is
\* inactive at once and fires its stop event in a later task (pc stop)
stopRecording ==
    /\ PanelOpen(ui)
    /\ ui.inputType = "mic"
    /\ ui.appState = "recording"
    /\ ui.recorder.state = "recording"
    /\ ui.started < MaxAppTasks
    /\ ui' = Await([ui EXCEPT !.recorder.state = "inactive"],
                   Task(ui.started + 1, "stop", Null, ui.recorder.mode,
                        ui.recorder.preset))
    /\ UNCHANGED <<variant, wavBuf, blobs, calls, audioContext, pitchRun,
                 filterRun, analysisRun>>

\* the stop event of the recorder fires: the onstop handler up to its first
\* await; in part_001 it sets 'PROCESSING...' and 'processing' before
onstop(t) ==
    /\ t \in ui.tasks
    /\ t.pc = "stop"
    /\ ui' = Await(IF ui.component = "App" THEN ui
                   ELSE [ui EXCEPT !.statusText = "PROCESSING...",
                                   !.appState = "processing"],
                   [t EXCEPT !.pc = "onstop"])
    /\ UNCHANGED <<variant, wavBuf, blobs, calls, audioContext, pitchRun,
                 filterRun, analysisRun>>

\* decodeAudioData settles for the onstop handler
onstopSettled(t, decoded) ==
    /\ t \in ui.tasks
    /\ t.pc = "onstop"
    /\ ui' = IF ui.component = "App"
             THEN IF decoded
                  THEN [ ui EXCEPT !.sourceAudio = Source(t.id),
                                   !.appState = "recorded",
                                   !.statusText = "AUDIO CAPTURED",
                                   !.tasks = @ \ {t} ]
                  ELSE [ ui EXCEPT !.tasks = @ \ {t} ]
             ELSE IF decoded
                  THEN runProcessing([ui EXCEPT !.sourceAudio = Source(t.id)],
                                     t.id, Source(t.id),
                                     currentMode("", t.mode), t.preset, FALSE)
                  ELSE [ ui EXCEPT !.statusText = "ERROR",
                                   !.appState = "idle",
                                   !.tasks = @ \ {t} ]
    /\ UNCHANGED <<variant, wavBuf, blobs, calls, audioContext, pitchRun,
                 filterRun, analysisRun>>

\* the file chooser is opened: by the main button with input 'file', or by
\* the input button of the tab 'decode', both in 'idle' only
fileInputClick ==
    /\ PanelOpen(ui)
    /\ ui.appState = "idle"
    /\ ui.inputType = "file" \/ ui.tab = "decode"
    /\ ui' = [ui EXCEPT !.fileDialog = TRUE]
    /\ UNCHANGED <<variant, wavBuf, blobs, calls, audioContext, pitchRun,
                 filterRun, analysisRun>>

\* the file chooser closes, with a file or without: handleFileUpload up to
\* its first await
handleFileUpload(file) ==
    /\ ui.fileDialog
    /\ file => ui.started < MaxAppTasks
    /\ ui' = IF ~file
             THEN [ui EXCEPT !.fileDialog = FALSE]
             ELSE Await(IF ui.component = "App"
                        THEN [ui EXCEPT !.fileDialog = FALSE,
                                        !.statusText = "LOADING..."]
                        ELSE [ui EXCEPT !.fileDialog = FALSE,
                                        !.statusText = "LOADING...",
                                        !.appState = "processing"],
                        Task(ui.started + 1, "upload", Null, ui.tab,
                             ActivePresetIndex(ui)))
    /\ audioContext' = IF file THEN "ctx" ELSE audioContext
    /\ UNCHANGED <<variant, wavBuf, blobs, calls, pitchRun, filterRun,
                 analysisRun>>

\* decodeAudioData settles for handleFileUpload
uploadSettled(t, decoded) ==
    /\ t \in ui.tasks
    /\ t.pc = "upload"
    /\ ui' = IF ui.component = "App"
             THEN IF decoded
                  THEN [ ui EXCEPT !.sourceAudio = Source(t.id),
                                   !.processedAudio = Null,
                                   !.appState = "recorded",
                                   !.statusText = "SOURCE LOADED",
                                   !.tasks = @ \ {t} ]
                  ELSE [ ui EXCEPT !.statusText = "INVALID FILE",
                                   !.tasks = @ \ {t} ]
             ELSE IF decoded
                  THEN runProcessing([ui EXCEPT !.sourceAudio = Source(t.id)],
                                     t.id, Source(t.id),
                                     currentMode("", t.mode), t.preset, FALSE)
                  ELSE [ ui EXCEPT !.statusText = "INVALID FILE",
                                   !.appState = "idle",
                                   !.tasks = @ \ {t} ]
    /\ UNCHANGED <<variant, wavBuf, blobs, calls, audioContext, pitchRun,
                 filterRun, analysisRun>>

\* the main button is clicked in 'recorded' (App.tsx): processAudio up to
\* the await of the timer
processAudio ==
    /\ ui.component = "App"
    /\ PanelOpen(ui)
    /\ ui.appState = "recorded"
    /\ ui.sourceAudio # Null
    /\ ui.started < MaxAppTasks
    /\ ui' = runProcessing(ui, ui.started + 1, ui.sourceAudio, ui.tab,
                           ActivePresetIndex(ui), FALSE)
    /\ UNCHANGED <<variant, wavBuf, blobs, calls, audioContext, pitchRun,
                 filterRun, analysisRun>>

\* the timer fires and the codec is called: it runs to its first await, or
\* it throws (createBuffer refuses the shape or the allocation) and the
\* catch block runs
codecCalled(t, yields) ==
    /\ t \in ui.tasks
    /\ t.pc = "delay"
    /\ ui' = IF yields THEN Await(ui, [t EXCEPT !.pc = "codec"])
                       ELSE processFailed(ui, t)
    /\ audioContext' = "ctx"
    /\ UNCHANGED <<variant, wavBuf, blobs, calls, pitchRun, filterRun,
                 analysisRun>>

\* the codec returns: the result is installed, then bufferToWavBlob builds
\* the blob and saveHistoryItem is called, or it throws (the ArrayBuffer
\* cannot be allocated) and the catch block runs
codecReturned(t, blob) ==
    /\ t \in ui.tasks
    /\ t.pc = "codec"
    /\ ui' = IF blob
             THEN Await(processInstalled(ui, t),
                        [t EXCEPT !.pc = "save", !.buffer = Result(t)])
             ELSE processFailed(processInstalled(ui, t), t)
    /\ UNCHANGED <<variant, wavBuf, blobs, calls, audioContext, pitchRun,
                 filterRun, analysisRun>>

\* saveHistoryItem settles.  It resolves when the transaction completes, and
\* also when the database cannot be opened (its catch block swallows that):
\* the .then of the caller puts the item in front of historyItems.  When the
\* transaction fails the promise it returned is rejected, the .then does
\* not run and the list stays.
historySaved(t, resolved) ==
    /\ t \in ui.tasks
    /\ t.pc = "save"
    /\ ui' = IF resolved
             THEN [ ui EXCEPT !.historyItems =
                                  << [ id |-> t.id, type |-> t.mode,
                                       blob |-> t.buffer ] >> \o @,
                              !.tasks = @ \ {t} ]
             ELSE [ ui EXCEPT !.tasks = @ \ {t} ]
    /\ UNCHANGED <<variant, wavBuf, blobs, calls, audioContext, pitchRun,
                 filterRun, analysisRun>>

\* the main button is clicked in 'completed': playAudio(processedAudio)
playProcessed ==
    /\ PanelOpen(ui)
    /\ ui.appState = "completed"
    /\ ui.processedAudio # Null
    /\ ui.started < MaxAppTasks
    /\ ui' = playAudio(ui, Task(ui.started + 1, "play", ui.processedAudio,
                                ui.tab, ActivePresetIndex(ui)))
    /\ audioContext' = "ctx"
    /\ UNCHANGED <<variant, wavBuf, blobs, calls, pitchRun, filterRun,
                 analysisRun>>

\* source.onended of a node that was started, whether it played its buffer
\* to the end or stopAudio stopped it: setIsPlaying(false).  sourceNodeRef
\* keeps what it holds.  The event is queued by the audio thread and may be
\* delivered after ctx.state has changed.
onended ==
    /\ ui.nodes > 0
    /\ ui' = [ui EXCEPT !.nodes = @ - 1, !.isPlaying = FALSE]
    /\ UNCHANGED <<variant, wavBuf, blobs, calls, audioContext, pitchRun,
                 filterRun, analysisRun>>

\* the reset button, rendered in 'completed' and 'recorded', is clicked
resetClicked ==
    /\ PanelOpen(ui)
    /\ ui.appState \in {"completed", "recorded"}
    /\ ui' = reset(ui)
    /\ UNCHANGED <<variant, wavBuf, blobs, calls, audioContext, pitchRun,
                 filterRun, analysisRun>>

\* the log is opened or closed
setShowHistory(show) ==
    /\ IF show THEN PanelOpen(ui) ELSE LogOpen(ui)
    /\ ui' = [ui EXCEPT !.showHistory = show]
    /\ UNCHANGED <<variant, wavBuf, blobs, calls, audioContext, pitchRun,
                 filterRun, analysisRun>>

\* the play button of the item i of the log is clicked: handleHistoryPlay
\* up to its first await, item.blob.arrayBuffer()
handleHistoryPlay(i) ==
    /\ LogOpen(ui)
    /\ i \in 1..Len(ui.historyItems)
    /\ ui.started < MaxAppTasks
    /\ ui' = Await(ui, Task(ui.started + 1, "logRead", ui.historyItems[i].blob,
                            ui.historyItems[i].type, 0))
    /\ UNCHANGED <<variant, wavBuf, blobs, calls, audioContext, pitchRun,
                 filterRun, analysisRun>>

\* blob.arrayBuffer() settles for handleHistoryPlay: getAudioContext() and
\* the call of decodeAudioData, or the catch block
logReadSettled(t, read) ==
    /\ t \in ui.tasks
    /\ t.pc = "logRead"
    /\ ui' = IF read THEN Await(ui, [t EXCEPT !.pc = "logPlay"])
                     ELSE [ui EXCEPT !.tasks = @ \ {t}]
    /\ audioContext' = IF read THEN "ctx" ELSE audioContext
    /\ UNCHANGED <<variant, wavBuf, blobs, calls, pitchRun, filterRun,
                 analysisRun>>

\* decodeAudioData settles for handleHistoryPlay: playAudio(buffer) is
\* called and not awaited, then the state is set; or the catch block runs
logPlaySettled(t, decoded) ==
    /\ t \in ui.tasks
    /\ t.pc = "logPlay"
    /\ ui' = IF decoded
             THEN [ playAudio([ui EXCEPT !.tasks = @ \ {t}],
                              [t EXCEPT !.buffer = FromBlob(t.buffer)])
                      EXCEPT !.showHistory = FALSE,
                             !.appState = "playing",
                             !.statusText = "PLAYING FROM LOG",
                             !.processedAudio = FromBlob(t.buffer),
                             !.sourceAudio = Null ]
             ELSE [ ui EXCEPT !.tasks = @ \ {t} ]
    /\ audioContext' = IF decoded THEN "ctx" ELSE audioContext
    /\ UNCHANGED <<variant, wavBuf, blobs, calls, pitchRun, filterRun,
                 analysisRun>>

\* the delete button of the item i of the log is clicked: deleteLogItem up
\* to the await of deleteHistoryItem
deleteLogItem(i) ==
    /\ LogOpen(ui)
    /\ i \in 1..Len(ui.historyItems)
    /\ ui.started < MaxAppTasks
    /\ ui' = Await(ui, [ Task(ui.started + 1, "delete", Null, ui.tab,
                              ActivePresetIndex(ui)) EXCEPT
                           !.item = ui.historyItems[i].id ])
    /\ UNCHANGED <<variant, wavBuf, blobs, calls, audioContext, pitchRun,
                 filterRun, analysisRun>>

\* deleteHistoryItem settles: resolved, the items of that id leave the
\* list; rejected (the transaction failed), the list stays
deleteSettled(t, resolved) ==
    /\ t \in ui.tasks
    /\ t.pc = "delete"
    /\ ui' = IF resolved
             THEN [ ui EXCEPT !.historyItems =
                                  SelectSeq(@, LAMBDA x : x.id # t.item),
                              !.tasks = @ \ {t} ]
             ELSE [ ui EXCEPT !.tasks = @ \ {t} ]
    /\ UNCHANGED <<variant, wavBuf, blobs, calls, audioContext, pitchRun,
                 filterRun, analysisRun>>

\* the clear button, rendered while the log has items, is clicked and the
\* question is answered: clearLogs up to the await of clearAllHistory
clearLogs(confirmed) ==
    /\ LogOpen(ui)
    /\ Len(ui.historyItems) > 0
    /\ confirmed
    /\ ui.started < MaxAppTasks
    /\ ui' = Await(ui, Task(ui.started + 1, "clear", Null, ui.tab,
                            ActivePresetIndex(ui)))
    /\ UNCHANGED <<variant, wavBuf, blobs, calls, audioContext, pitchRun,
                 filterRun, analysisRun>>

\* clearAllHistory settles: resolved, the list is emptied; rejected, it
\* stays
clearSettled(t, resolved) ==
    /\ t \in ui.tasks
    /\ t.pc = "clear"
    /\ ui' = IF resolved
             THEN [ ui EXCEPT !.historyItems = << >>, !.tasks = @ \ {t} ]
             ELSE [ ui EXCEPT !.tasks = @ \ {t} ]
    /\ UNCHANGED <<variant, wavBuf, blobs, calls, audioContext, pitchRun,
                 filterRun, analysisRun>>

---------------------------------------------------------------------------
(* The App runs: the component is mounted in either version, its mount
   effect has called getHistoryItems(), and the user and the browser act in
   any order until MaxAppTasks invocations of asynchronous handlers have been
   made and the preset selector has been pressed MaxAppPresses times *)

AppInit ==
    /\ variant = "multi"
    /\ wavBuf = NoBuffer
    /\ blobs = << >>
    /\ audioContext = "null"
    /\ calls = [k \in Slots |-> NoCall]
    /\ pitchRun = NoPitchRun
    /\ filterRun = NoFilterRun
    /\ analysisRun = NoAnalysisRun
    /\ \E c \in Components, state \in {"suspended", "running"} :
         ui = [AppMounted EXCEPT !.component = c,
                                 !.context = state,
                                 !.tasks = {Task(0, "mount", Null, "encode", 0)}]

\* the steps of the user
UserNext ==
    \/ \E newTab \in Tabs : handleModeChange(newTab)
    \/ \E type \in {"mic", "file"} : setInputType(type)
    \/ \E direction \in {1, -1} :
          Len(ui.trail) < MaxAppPresses /\ cyclePreset(direction)
    \/ startRecording
    \/ stopRecording
    \/ fileInputClick
    \/ \E file \in BOOLEAN : handleFileUpload(file)
    \/ processAudio
    \/ playProcessed
    \/ resetClicked
    \/ \E show \in BOOLEAN : setShowHistory(show)
    \/ \E i \in 1..MaxAppTasks : handleHistoryPlay(i)
    \/ \E i \in 1..MaxAppTasks : deleteLogItem(i)
    \/ \E confirmed \in BOOLEAN : clearLogs(confirmed)

\* the steps the browser owes the page: a promise settles, a timer or an
\* event fires
BrowserSettles ==
    \/ \E t \in ui.tasks, loaded \in BOOLEAN, items \in StoredLogs :
          historyLoaded(t, loaded, items)
    \/ contextResumed
    \/ \E t \in ui.tasks, granted \in BOOLEAN : getUserMediaSettled(t, granted)
    \/ \E t \in ui.tasks : onstop(t)
    \/ \E t \in ui.tasks, decoded \in BOOLEAN : onstopSettled(t, decoded)
    \/ \E t \in ui.tasks, decoded \in BOOLEAN : uploadSettled(t, decoded)
    \/ \E t \in ui.tasks, yields \in BOOLEAN : codecCalled(t, yields)
    \/ \E t \in ui.tasks, blob \in BOOLEAN : codecReturned(t, blob)
    \/ \E t \in ui.tasks, resolved \in BOOLEAN : historySaved(t, resolved)
    \/ \E t \in ui.tasks, read \in BOOLEAN : logReadSettled(t, read)
    \/ \E t \in ui.tasks, decoded \in BOOLEAN : logPlaySettled(t, decoded)
    \/ \E t \in ui.tasks, resolved \in BOOLEAN : deleteSettled(t, resolved)
    \/ \E t \in ui.tasks, resolved \in BOOLEAN : clearSettled(t, resolved)
    \/ onended

\* the steps of the browser: those it owes the page, and the suspension of
\* the AudioContext, which it may or may not do
BrowserNext == BrowserSettles \/ contextSuspended

AppNext == UserNext \/ BrowserNext

SpecApp == AppInit /\ [][AppNext]_vars

---------------------------------------------------------------------------
(* The selector runs: from the mounted component the arrows of the preset
   selector are pressed up to MaxPresses times and the tab is switched in
   between *)

SelectorInit ==
    /\ variant = "multi"
    /\ wavBuf = NoBuffer
    /\ blobs = << >>
    /\ audioContext = "null"
    /\ calls = [k \in Slots |-> NoCall]
    /\ pitchRun = NoPitchRun
    /\ filterRun = NoFilterRun
    /\ analysisRun = NoAnalysisRun
    /\ \E c \in Components : ui = [AppMounted EXCEPT !.component = c]

SelectorNext ==
    \/ cyclePreset(1)
    \/ cyclePreset(-1)
    \/ \E newTab \in Tabs : handleModeChange(newTab)

SpecSelector == SelectorInit /\ [][SelectorNext]_vars

---------------------------------------------------------------------------
(* Claims about the selector and the tabs, checked under SpecSelector *)

\* C26: after any sequence of cyclePreset(+1/-1) calls and tab switches
\* encodePresetIndex is in [0, len(ENCODE_PRESETS)) and decodePresetIndex is
\* in [0, len(DECODE_PRESETS)), and a cyclePreset call (a step that extends
\* the trail) leaves the index of the tab that is not active unchanged.
C26_IndexesInRange ==
    /\ [](/\ ui.encodePresetIndex \in 0..(Len(ENCODE_PRESETS) - 1)
          /\ ui.decodePresetIndex \in 0..(Len(DECODE_PRESETS) - 1))
    /\ [][ui'.trail # ui.trail
          => /\ ui'.tab = ui.tab
             /\ IF ui.tab = "encode"
                THEN ui'.decodePresetIndex = ui.decodePresetIndex
                ELSE ui'.encodePresetIndex = ui.encodePresetIndex]_vars

\* C26 witness: after a switch to the tab 'decode' the selector went back
\* from the first decode preset to the last one and on to the one before it,
\* while the encode index kept the value an earlier press gave it
C26_Witness ==
    /\ ui.tab = "decode"
    /\ Len(ui.trail) = 3
    /\ ui.trail[1] = [direction |-> 1, before |-> 0]
    /\ ui.trail[2] = [direction |-> -1, before |-> 0]
    /\ ui.trail[3] = [direction |-> -1, before |-> Len(DECODE_PRESETS) - 1]
    /\ ui.encodePresetIndex = 1
    /\ ui.decodePresetIndex = Len(DECODE_PRESETS) - 2

---------------------------------------------------------------------------
(* Claims about the processing in the App, checked under SpecApp *)

\* the processing invocation t fails in this step: it waited for the timer
\* or for the codec, and it is gone without having reached saveHistoryItem
Fails(t) ==
    /\ t \in ui.tasks
    /\ t.pc \in {"delay", "codec"}
    /\ \A x \in ui'.tasks : x.id # t.id

\* no item of the log comes from the invocation t
NotLogged(u, t) ==
    \A i \in 1..Len(u.historyItems) : u.historyItems[i].id # t.id

\* C24: when encodeToBirdsong / decodeFromBirdsong or the WAV serialisation
\* throws during processAudio / runProcessing, appState goes from
\* 'processing' to 'recorded' with the status 'PROCESS FAILED', appState is
\* not 'completed' after the step, and no history item is saved for the
\* invocation.
C24_ProcessFailure ==
    [][\A t \in ui.tasks :
          Fails(t) => /\ ui.appState = "processing"
                      /\ ui'.appState = "recorded"
                      /\ ui'.statusText = "PROCESS FAILED"
                      /\ ui'.historyItems = ui.historyItems
                      /\ NotLogged(ui', t)]_vars

\* C24, without the state the failure starts from: a failing invocation
\* leaves 'recorded' and 'PROCESS FAILED' and saves no history item.
C24_FailureCaught ==
    [][\A t \in ui.tasks :
          Fails(t) => /\ ui'.appState = "recorded"
                      /\ ui'.statusText = "PROCESS FAILED"
                      /\ ui'.historyItems = ui.historyItems
                      /\ NotLogged(ui', t)]_vars

\* the invocation t, waiting at pc, moves on to the await `next` in this step
MovesOn(t, pc, next) ==
    /\ t \in ui.tasks
    /\ t.pc = pc
    /\ \E x \in ui'.tasks : x.id = t.id /\ x.pc = next

\* the invocation t, waiting at pc, ends in this step
Ends(t, pc) ==
    /\ t \in ui.tasks
    /\ t.pc = pc
    /\ \A x \in ui'.tasks : x.id # t.id

\* C25: in the auto-processing App (part_001), a switch from the tab
\* 'encode' to 'decode' in 'completed' with a processed buffer makes that
\* buffer the decode source, clears processedAudio and starts a decode of it
\* with the decode preset selected at that moment; when that decode
\* completes, processedAudio is the decode of that buffer, and the history
\* item saved for it (when saveHistoryItem resolves; a rejected save adds no
\* item) has the type 'decode' and holds that decode.  Every other mode
\* change resets to 'idle' with both buffers null.
C25_HandOff ==
    [][/\ \A newTab \in Tabs :
            ui.component = "part_001" /\ handleModeChange(newTab)
            => IF /\ ui.tab = "encode"
                  /\ newTab = "decode"
                  /\ ui.appState = "completed"
                  /\ ui.processedAudio # Null
               THEN /\ ui'.tab = "decode"
                    /\ ui'.sourceAudio = ui.processedAudio
                    /\ ui'.processedAudio = Null
                    /\ ui'.appState = "processing"
                    /\ \E t \in ui'.tasks \ ui.tasks :
                          /\ t.handoff
                          /\ t.pc = "delay"
                          /\ t.mode = "decode"
                          /\ t.buffer = ui.processedAudio
                          /\ t.preset = ui.decodePresetIndex
               ELSE /\ ui'.tab = newTab
                    /\ ui'.appState = "idle"
                    /\ ui'.sourceAudio = Null
                    /\ ui'.processedAudio = Null
       /\ \A t \in ui.tasks :
            t.handoff /\ MovesOn(t, "codec", "save")
            => /\ ui'.processedAudio = Decoded(t.buffer, t.preset)
               /\ ui'.appState = "completed"
       /\ \A t \in ui.tasks :
            t.handoff /\ Ends(t, "save") /\ ui'.historyItems # ui.historyItems
            => /\ ui'.historyItems =
                     << [ id |-> t.id, type |-> "decode",
                          blob |-> Decoded(t.buffer.of, t.preset) ] >>
                     \o ui.historyItems
               /\ t.buffer = Decoded(t.buffer.of, t.preset)]_vars

\* C25 witness: the selector of the tab 'decode' was moved back to the last
\* decode preset, the file of invocation 1 was encoded with the first encode
\* preset, the switch to 'decode' handed the result over, and its decode
\* with the selected decode preset is installed and in the log
C25_Witness ==
    /\ ui.component = "part_001"
    /\ ui.tab = "decode"
    /\ ui.appState = "completed"
    /\ ui.decodePresetIndex = Len(DECODE_PRESETS) - 1
    /\ ui.sourceAudio = Encoded(Source(1), 0)
    /\ ui.processedAudio =
           Decoded(Encoded(Source(1), 0), Len(DECODE_PRESETS) - 1)
    /\ Len(ui.historyItems) = 2
    /\ ui.historyItems[1].type = "decode"
    /\ ui.historyItems[1].blob = ui.processedAudio
    /\ ui.historyItems[2].type = "encode"

\* the invocations of encodeToBirdsong / decodeFromBirdsong that have been
\* called and have not returned
InFlight(u) == { t \in u.tasks : t.pc = "codec" }

\* C27: at most one encode/decode invocation is in flight at any time,
\* under every interleaving of the user's actions with the asynchronous
\* processing.
C27_OneInFlight == Cardinality(InFlight(ui)) <= 1

\* C28, first part: an invocation of the processing that reset() has
\* overtaken (stale) does not install its result when its codec returns:
\* appState does not become 'completed' and processedAudio keeps its value.
C28_NoStaleInstall ==
    [][\A t \in ui.tasks :
          t.stale /\ (MovesOn(t, "codec", "save") \/ Ends(t, "codec"))
          => /\ ui'.appState # "completed"
             /\ ui'.processedAudio = ui.processedAudio]_vars

\* C28, second part: when appState = 'completed' in the tab 'decode',
\* processedAudio is the output of a decode.
C28_DecodeTabHoldsDecode ==
    ui.appState = "completed" /\ ui.tab = "decode"
    => ui.processedAudio.op = "decode"

\* C28: a result of a processing invocation started before a reset or mode
\* change is never installed afterwards: once reset() / handleModeChange has
\* put the app in 'idle' with processedAudio = null, the invocations it
\* overtook leave appState and processedAudio alone; in particular, in
\* 'completed' in the tab 'decode' processedAudio is the output of a decode.
C28_NoLateResult ==
    /\ []C28_DecodeTabHoldsDecode
    /\ [][\A t \in ui.tasks :
             t.stale /\ (MovesOn(t, "codec", "save") \/ Ends(t, "codec"))
             => /\ ui'.appState # "completed"
                /\ ui'.processedAudio = ui.processedAudio]_vars

---------------------------------------------------------------------------
(* BirdsongCodec: the component of src/unnamed/part_000 and part_002, with
   a source card (record or upload, encode), an artifact card (upload,
   decode) and a player.  The two versions differ in the status texts. *)

CodecVersions == {"part_000", "part_002"}

\* the state of the component when it mounts.  Beside the React state the
\* record keeps recorder (mediaRecorderRef), source (sourceRef holds a
\* node), nodes (the nodes that were started and have not fired their ended
\* event), context (what ctx.state reads), waiting (the invocations that
\* wait for ctx.resume(), in the order of their calls), and tasks and
\* started as the App does.
BirdsongCodecMounted ==
    [ component |-> "part_002",
      mode |-> "idle", status |-> "IDLE",
      recordedAudio |-> Null, encodedAudio |-> Null, decodedAudio |-> Null,
      activePlayback |-> "null",
      recorder |-> "none", source |-> "none", nodes |-> 0,
      context |-> "suspended", waiting |-> << >>,
      tasks |-> {}, started |-> 0 ]

\* the status text of the version
Shout(u, upper, lower) == IF u.component = "part_000" THEN upper ELSE lower

\* an invocation of BirdsongCodec that waits at an await: pc as in the App
\* (resumeFile is the ctx.resume() of handleUpload); type is 'encode' or
\* 'decode' for the processing and 'input', 'encoded' or 'decoded' for an
\* upload and for play, and activePlayback is the value in the closure
CodecTask(id, pc, buffer, type, activePlayback) ==
    [ id |-> id, pc |-> pc, buffer |-> buffer, type |-> type,
      activePlayback |-> activePlayback ]

\* stopAudio of BirdsongCodec: the node of sourceRef, if there is one, is
\* stopped and the ref cleared; a stopped node still fires its ended event
BirdsongCodec_stopAudio(u) ==
    [u EXCEPT !.source = "none", !.activePlayback = "null"]

\* the invocation t calls ctx.resume() and waits for it
BirdsongCodec_resume(u, t) ==
    [ Await(u, t) EXCEPT !.waiting = Append(@, t.id) ]

\* play after its await: a new node is put in sourceRef and started
BirdsongCodec_startSource(u, type) ==
    [ u EXCEPT !.source = "node", !.nodes = @ + 1, !.mode = "playing",
               !.activePlayback = type ]

\* play(buffer, type), the invocation t with the activePlayback of the
\* render of its closure: the playback of that type is stopped; or
\* stopAudio(), then the node is started at once when the context runs, and
\* after ctx.resume() when it is suspended
play(u, t) ==
    IF t.activePlayback = t.type
    THEN [ BirdsongCodec_stopAudio(u) EXCEPT !.started = Max(@, t.id) ]
    ELSE IF u.context = "suspended"
    THEN BirdsongCodec_resume(BirdsongCodec_stopAudio(u),
                              [t EXCEPT !.pc = "play"])
    ELSE [ BirdsongCodec_startSource(BirdsongCodec_stopAudio(u), t.type)
             EXCEPT !.started = Max(@, t.id) ]

\* the record button, rendered while recordedAudio is null, is held down:
\* startRecording up to its first await, ctx.resume() when the context is
\* suspended, getUserMedia when it runs
BirdsongCodec_startRecording ==
    /\ ui.recordedAudio = Null
    /\ ui.started < MaxTasks
    /\ ui' = IF ui.context = "suspended"
             THEN BirdsongCodec_resume(
                      BirdsongCodec_stopAudio(ui),
                      CodecTask(ui.started + 1, "resume", Null, "input",
                                ui.activePlayback))
             ELSE Await(BirdsongCodec_stopAudio(ui),
                        CodecTask(ui.started + 1, "getUserMedia", Null, "input",
                                  ui.activePlayback))
    /\ audioContext' = "ctx"
    /\ UNCHANGED <<variant, wavBuf, blobs, calls, pitchRun, filterRun,
                 analysisRun>>

\* the continuations of the invocations ids, in that order, after
\* ctx.resume() settled: startRecording goes on to getUserMedia,
\* handleUpload to the decoding of its file, play starts its node
RECURSIVE BirdsongCodec_resumed(_, _)
BirdsongCodec_resumed(u, ids) ==
    IF ids = << >> THEN u
    ELSE LET t == CHOOSE x \in u.tasks : x.id = Head(ids)
         IN BirdsongCodec_resumed(
                IF t.pc = "resume"
                THEN Await(u, [t EXCEPT !.pc = "getUserMedia"])
                ELSE IF t.pc = "resumeFile"
                THEN Await(u, [t EXCEPT !.pc = "upload"])
                ELSE [ BirdsongCodec_startSource(u, t.type) EXCEPT
                         !.tasks = @ \ {t} ],
                Tail(ids))

\* ctx.resume() settles: the context runs and the promise of every
\* invocation that waits for it is resolved
BirdsongCodec_contextResumed ==
    /\ ui.context = "suspended"
    /\ ui.waiting # << >>
    /\ ui' = [ BirdsongCodec_resumed(ui, ui.waiting) EXCEPT
                 !.context = "running", !.waiting = << >> ]
    /\ UNCHANGED <<variant, wavBuf, blobs, calls, audioContext, pitchRun,
                 filterRun, analysisRun>>

\* the browser suspends the context that runs (the page goes to the
\* background, the audio session is interrupted): ctx.state reads
\* 'suspended' until a resume() has settled
BirdsongCodec_contextSuspended ==
    /\ ui.context = "running"
    /\ ui' = [ui EXCEPT !.context = "suspended"]
    /\ UNCHANGED <<variant, wavBuf, blobs, calls, audioContext, pitchRun,
                 filterRun, analysisRun>>

\* getUserMedia settles
BirdsongCodec_getUserMediaSettled(t, granted) ==
    /\ t \in ui.tasks
    /\ t.pc = "getUserMedia"
    /\ ui' = IF granted
             THEN [ ui EXCEPT !.recorder = "recording",
                              !.mode = "recording",
                              !.status = Shout(ui, "RECORDING", "Recording..."),
                              !.tasks = @ \ {t} ]
             ELSE [ ui EXCEPT !.status = Shout(ui, "MIC PERMISSION", "No Mic"),
                              !.tasks = @ \ {t} ]
    /\ UNCHANGED <<variant, wavBuf, blobs, calls, audioContext, pitchRun,
                 filterRun, analysisRun>>

\* the record button is released: stopRecording stops the recorder, which
\* is inactive at once and fires its stop event in a later task (pc stop)
BirdsongCodec_stopRecording ==
    /\ ui.recordedAudio = Null
    /\ ui.recorder = "recording"
    /\ ui.started < MaxTasks
    /\ ui' = Await([ui EXCEPT !.recorder = "inactive"],
                   CodecTask(ui.started + 1, "stop", Null, "input",
                             ui.activePlayback))
    /\ UNCHANGED <<variant, wavBuf, blobs, calls, audioContext, pitchRun,
                 filterRun, analysisRun>>

\* the stop event of the recorder fires: the onstop handler up to its first
\* await
BirdsongCodec_onstop(t) ==
    /\ t \in ui.tasks
    /\ t.pc = "stop"
    /\ ui' = Await(ui, [t EXCEPT !.pc = "onstop"])
    /\ UNCHANGED <<variant, wavBuf, blobs, calls, audioContext, pitchRun,
                 filterRun, analysisRun>>

\* decodeAudioData settles for the onstop handler
BirdsongCodec_onstopSettled(t, decoded) ==
    /\ t \in ui.tasks
    /\ t.pc = "onstop"
    /\ ui' = IF decoded
             THEN [ ui EXCEPT !.recordedAudio = Source(t.id),
                              !.encodedAudio = Null,
                              !.decodedAudio = Null,
                              !.status = Shout(ui, "RECORDED", "Recorded"),
                              !.mode = "idle",
                              !.tasks = @ \ {t} ]
             ELSE [ ui EXCEPT !.status = Shout(ui, "ERROR", "Error"),
                              !.mode = "idle",
                              !.tasks = @ \ {t} ]
    /\ UNCHANGED <<variant, wavBuf, blobs, calls, audioContext, pitchRun,
                 filterRun, analysisRun>>

\* a file is chosen in the source card (isArtifact false) or the artifact
\* card (true): handleUpload up to its first await, ctx.resume() when the
\* context is suspended, the decoding of the file when it runs
\* (file.arrayBuffer() and decodeAudioData, with nothing between them, are
\* one wait)
handleUpload(isArtifact) ==
    /\ ui.started < MaxTasks
    /\ ui' = IF ui.context = "suspended"
             THEN BirdsongCodec_resume(
                      BirdsongCodec_stopAudio(ui),
                      CodecTask(ui.started + 1, "resumeFile", Null,
                                IF isArtifact THEN "encoded" ELSE "input",
                                ui.activePlayback))
             ELSE Await(BirdsongCodec_stopAudio(ui),
                        CodecTask(ui.started + 1, "upload", Null,
                                  IF isArtifact THEN "encoded" ELSE "input",
                                  ui.activePlayback))
    /\ audioContext' = "ctx"
    /\ UNCHANGED <<variant, wavBuf, blobs, calls, pitchRun, filterRun,
                 analysisRun>>

\* decodeAudioData settles for handleUpload: the buffers are set and
\* play(buffer, type) is called and not awaited; or the catch block runs
BirdsongCodec_uploadSettled(t, decoded) ==
    /\ t \in ui.tasks
    /\ t.pc = "upload"
    /\ ui' = IF ~decoded
             THEN [ ui EXCEPT !.status = Shout(ui, "INVALID WAV", "Invalid WAV"),
                              !.tasks = @ \ {t} ]
             ELSE IF t.type = "encoded"
             THEN play([ ui EXCEPT !.encodedAudio = Source(t.id),
                                   !.recordedAudio = Null,
                                   !.decodedAudio = Null,
                                   !.status = Shout(ui, "ARTIFACT LOADED",
                                                    "Artifact Loaded"),
                                   !.tasks = @ \ {t} ],
                       [t EXCEPT !.buffer = Source(t.id)])
             ELSE play([ ui EXCEPT !.recordedAudio = Source(t.id),
                                   !.encodedAudio = Null,
                                   !.decodedAudio = Null,
                                   !.status = Shout(ui, "SOURCE LOADED",
                                                    "Source Loaded"),
                                   !.tasks = @ \ {t} ],
                       [t EXCEPT !.buffer = Source(t.id)])
    /\ audioContext' = IF decoded /\ t.activePlayback # t.type
                       THEN "ctx" ELSE audioContext
    /\ UNCHANGED <<variant, wavBuf, blobs, calls, pitchRun, filterRun,
                 analysisRun>>

\* the encode button, rendered while recordedAudio is set and disabled in
\* the mode 'encoding', is clicked: encode up to the await of the timer
encode ==
    /\ ui.recordedAudio # Null
    /\ ui.mode # "encoding"
    /\ ui.started < MaxTasks
    /\ ui' = Await([ BirdsongCodec_stopAudio(ui) EXCEPT
                       !.mode = "encoding",
                       !.status = Shout(ui, "ENCRYPTING...", "Encrypting...") ],
                   CodecTask(ui.started + 1, "delay", ui.recordedAudio,
                             "encode", ui.activePlayback))
    /\ UNCHANGED <<variant, wavBuf, blobs, calls, audioContext, pitchRun,
                 filterRun, analysisRun>>

\* the decode button, disabled without encodedAudio and in the mode
\* 'decoding', is clicked: decode up to the await of the timer
decode ==
    /\ ui.encodedAudio # Null
    /\ ui.mode # "decoding"
    /\ ui.started < MaxTasks
    /\ ui' = Await([ BirdsongCodec_stopAudio(ui) EXCEPT
                       !.mode = "decoding",
                       !.status = Shout(ui, "REVIVING...", "Reviving...") ],
                   CodecTask(ui.started + 1, "delay", ui.encodedAudio,
                             "decode", ui.activePlayback))
    /\ UNCHANGED <<variant, wavBuf, blobs, calls, audioContext, pitchRun,
                 filterRun, analysisRun>>

\* the catch block of encode and decode
BirdsongCodec_failed(u, t) ==
    [ u EXCEPT !.status = Shout(u, "ERROR", "Error"),
               !.mode = "idle",
               !.tasks = @ \ {t} ]

\* the timer of encode or decode fires and the codec is called with its
\* default preset: it runs to its first await, or it throws
BirdsongCodec_codecCalled(t, yields) ==
    /\ t \in ui.tasks
    /\ t.pc = "delay"
    /\ ui' = IF yields THEN Await(ui, [t EXCEPT !.pc = "codec"])
                       ELSE BirdsongCodec_failed(ui, t)
    /\ audioContext' = "ctx"
    /\ UNCHANGED <<variant, wavBuf, blobs, calls, pitchRun, filterRun,
                 analysisRun>>

\* the statements of encode and decode after the codec returned
BirdsongCodec_installed(u, t) ==
    IF t.type = "encode"
    THEN [ u EXCEPT !.encodedAudio = Encoded(t.buffer, 0),
                    !.decodedAudio = Null,
                    !.status = Shout(u, "ENCRYPTED", "Encrypted"),
                    !.mode = "idle",
                    !.tasks = @ \ {t} ]
    ELSE [ u EXCEPT !.decodedAudio = Decoded(t.buffer, 0),
                    !.status = Shout(u, "REVIVED", "Revived"),
                    !.mode = "idle",
                    !.tasks = @ \ {t} ]

\* the codec returns
BirdsongCodec_codecReturned(t) ==
    /\ t \in ui.tasks
    /\ t.pc = "codec"
    /\ ui' = BirdsongCodec_installed(ui, t)
    /\ UNCHANGED <<variant, wavBuf, blobs, calls, audioContext, pitchRun,
                 filterRun, analysisRun>>

\* what the player plays: the newest of the buffers
Newest(u) ==
    IF u.decodedAudio # Null THEN "decoded"
    ELSE IF u.encodedAudio # Null THEN "encoded" ELSE "input"

\* the player is clicked: play(buffer, type) for the newest of the buffers
playClicked ==
    /\ ui.decodedAudio # Null \/ ui.encodedAudio # Null \/ ui.recordedAudio # Null
    /\ ui.started < MaxTasks
    /\ ui' = play(ui, CodecTask(ui.started + 1, "play",
                                IF ui.decodedAudio # Null THEN ui.decodedAudio
                                ELSE IF ui.encodedAudio # Null
                                THEN ui.encodedAudio ELSE ui.recordedAudio,
                                Newest(ui), ui.activePlayback))
    /\ audioContext' = IF ui.activePlayback = Newest(ui) THEN audioContext
                                                         ELSE "ctx"
    /\ UNCHANGED <<variant, wavBuf, blobs, calls, pitchRun, filterRun,
                 analysisRun>>

\* source.onended of a node that was started, whether it played its buffer
\* to the end or stopAudio stopped it: the mode is 'idle', activePlayback
\* null and sourceRef cleared, whatever node sourceRef holds.  The event is
\* queued by the audio thread and may be delivered after ctx.state has
\* changed.
BirdsongCodec_onended ==
    /\ ui.nodes > 0
    /\ ui' = [ui EXCEPT !.nodes = @ - 1, !.mode = "idle",
                        !.activePlayback = "null", !.source = "none"]
    /\ UNCHANGED <<variant, wavBuf, blobs, calls, audioContext, pitchRun,
                 filterRun, analysisRun>>

---------------------------------------------------------------------------
(* The BirdsongCodec runs: the component is mounted in either version and
   the user and the browser act in any order until MaxTasks invocations of
   asynchronous handlers have been made *)

BirdsongCodecInit ==
    /\ variant = "multi"
    /\ wavBuf = NoBuffer
    /\ blobs = << >>
    /\ audioContext = "null"
    /\ calls = [k \in Slots |-> NoCall]
    /\ pitchRun = NoPitchRun
    /\ filterRun = NoFilterRun
    /\ analysisRun = NoAnalysisRun
    /\ \E c \in CodecVersions, state \in {"suspended", "running"} :
         ui = [BirdsongCodecMounted EXCEPT !.component = c, !.context = state]

BirdsongCodecNext ==
    \/ BirdsongCodec_startRecording
    \/ BirdsongCodec_stopRecording
    \/ \E isArtifact \in BOOLEAN : handleUpload(isArtifact)
    \/ encode
    \/ decode
    \/ playClicked
    \/ BirdsongCodec_contextResumed
    \/ BirdsongCodec_contextSuspended
    \/ \E t \in ui.tasks, granted \in BOOLEAN :
          BirdsongCodec_getUserMediaSettled(t, granted)
    \/ \E t \in ui.tasks : BirdsongCodec_onstop(t)
    \/ \E t \in ui.tasks, decoded \in BOOLEAN :
          BirdsongCodec_onstopSettled(t, decoded)
    \/ \E t \in ui.tasks, decoded \in BOOLEAN :
          BirdsongCodec_uploadSettled(t, decoded)
    \/ \E t \in ui.tasks, yields \in BOOLEAN :
          BirdsongCodec_codecCalled(t, yields)
    \/ \E t \in ui.tasks : BirdsongCodec_codecReturned(t)
    \/ BirdsongCodec_onended

SpecBirdsongCodec == BirdsongCodecInit /\ [][BirdsongCodecNext]_vars

---------------------------------------------------------------------------
(* Claims about the BirdsongCodec UI, checked under SpecBirdsongCodec *)

\* C29, first part: whenever decodedAudio is non-null it is the decode of
\* the encodedAudio the component holds.
C29_DecodedOfEncoded ==
    ui.decodedAudio # Null => ui.decodedAudio = Decoded(ui.encodedAudio, 0)

\* C29, second part: whenever encodedAudio was produced by encode it is the
\* encoding of the recordedAudio the component holds.
C29_EncodedOfRecorded ==
    ui.encodedAudio.op = "encode"
    => ui.encodedAudio = Encoded(ui.recordedAudio, 0)

\* C29: derived buffers are never stale: decodedAudio, when set, is the
\* decode of the encodedAudio now held, and encodedAudio, when it was
\* produced by encode, is the encoding of the recordedAudio now held, under
\* every interleaving of record, upload, encode and decode with their
\* asynchronous completions.
C29_NeverStale ==
    /\ ui.decodedAudio # Null => ui.decodedAudio = Decoded(ui.encodedAudio, 0)
    /\ ui.encodedAudio.op = "encode"
       => ui.encodedAudio = Encoded(ui.recordedAudio, 0)

---------------------------------------------------------------------------
(* The App runs, with the browser doing its part: a promise that can settle
   settles, a timer fires and a node that was started fires its ended
   event.  Nothing is assumed about the user, nor about the browser
   suspending the AudioContext. *)

SpecAppLive == AppInit /\ [][AppNext]_vars /\ WF_vars(BrowserSettles)

\* the main button acts on a press or a click: it starts a recording or
\* opens the file chooser in 'idle', starts the processing in 'recorded'
\* (App.tsx), or plays the result in 'completed'
MainButtonActs(u) ==
    \/ u.appState = "idle"
    \/ u.appState = "recorded" /\ u.component = "App" /\ u.sourceAudio # Null
    \/ u.appState = "completed" /\ u.processedAudio # Null

\* C30: playback from the history log does not trap the state machine:
\* whenever appState is 'playing', appState eventually leaves 'playing' for
\* a state in which the main button can start a new recording, upload or
\* playback, the browser ending the playback and the user doing nothing.
C30_PlaybackReleases ==
    (ui.appState = "playing")
        ~> (ui.appState # "playing" /\ MainButtonActs(ui))

=============================================================================
